---- MODULE Spec2Model ----
(***************************************************************************)
(* sys-voice: the capture facade (src/src/lib.rs), the backend contract    *)
(* (src/src/backends/mod.rs) and the five platform backends, modelled as   *)
(* one state machine.  Audio blocks are records [id, len]: id is the       *)
(* capture sequence number of the block, len its number of samples.        *)
(* flume channels are FIFO sequences with a capacity and two ends that are *)
(* alive or dropped.                                                       *)
(***************************************************************************)
EXTENDS Integers, Sequences, FiniteSets, TLC

(* ------------------------------ bounds -------------------------------- *)

\* blocks the device delivers / play_audio calls made in one run of Spec
MaxBlocks == 2
MaxPlay == 1
\* blocks the device delivers in one run of SpecCapture
CaptureBlocks == 3
\* play_audio calls made in one run of SpecPlayback
PlaybackCalls == 3
\* blocks delivered / play_audio calls made in one run of SpecStalled: enough
\* to fill a queue of 32, resp. 16, and to go on producing after that
StalledBlocks == 34
StalledCalls == 17
\* receive calls of the slow consumer in one run of SpecBackpressure
SlowRecvs == 2
\* playback requests consumed in one run of SpecOutput
MaxRequests == 3
\* samples of the longest playback request of SpecOutput
MaxRequestLen == 3
\* render callbacks in one run of SpecOutput
MaxRenders == 2
\* frames the native engine asks of one render callback in SpecOutput
RenderFrames == 2
\* samples fed to a Resampler in one run of SpecResampler
\* transform invocations counted within one call of Resampler::process
MaxTransforms == 4
\* calls of the polling receive of a binding
MaxBindingCalls == 3
\* bytes of a device block given to the normalizer
MaxBytes == 8
\* samples fed to a Resampler
MaxInput == 7

(* ------------------------- program constants -------------------------- *)

IngressCap == 32
OutboundCap == 32
PlaybackCap == 16
CallbackCap == 32
FRAME_DURATION_MS == 10
SAMPLE_RATE == 48000
BUFFER_FRAMES == 480
BUFFER_SIZE == 1024

Backends == {"linux", "windows", "macos", "ios", "android"}

\* backends whose capture side is a thread or task that owns the ingress sender
ThreadBackends == {"linux", "windows", "macos", "android"}
\* backends whose hardware buffers arrive in a real-time callback
CallbackBackends == {"macos", "android", "ios"}
\* backends whose callback publishes into an intermediate callback queue
ForwardBackends == {"macos", "android"}
\* backends whose capture thread reads the device itself
ReaderBackends == {"linux", "windows"}
\* backends whose playback consumer builds a Resampler per request
ResamplerPlayback == {"linux", "macos", "windows"}
\* backends whose playback consumer acquires its device before its loop
PlaybackInitBackends == {"linux", "windows"}
\* backends whose create_backend spawns on the Tokio runtime
TokioBackends == {"linux", "macos", "windows"}

ErrorKinds ==
  {"DeviceUnavailable", "PermissionDenied", "AecNotSupported",
   "InvalidConfig", "BackendError"}

ChannelModes == {"Mono", "Stereo"}
TargetRates == {0, 16000, 48000}
Configs == [sample_rate : TargetRates, channels : ChannelModes]

NativeRatesOf(o) ==
  IF o \in {"linux", "ios"} THEN {SAMPLE_RATE} ELSE {44100, SAMPLE_RATE}

BlockLensOf(o) ==
  IF o = "linux" THEN {BUFFER_FRAMES} ELSE {256, BUFFER_SIZE}

BackendErrorsOf(o) ==
  IF o = "windows" THEN {"BackendError", "DeviceUnavailable"}
  ELSE {"BackendError"}

PlayRates == {0, SAMPLE_RATE}

\* the application threads of SpecSharedFacade
Threads == {1, 2}

NoBlock == [id |-> 0, len |-> 0]
NoMsg == [ok |-> TRUE, src |-> 0, len |-> 0]

VARIABLES
  os,           \* the backend compiled in (cfg(target_os))
  facade,       \* "none" | "alive" | "released" | "failed" | "stopped" | "fault"
  startResult,  \* "none" | "Ok" | an error kind | "panic"
  cfg,          \* the AecConfig given to CaptureHandle::new
  nativeRate,   \* native_rate returned by create_backend
  bufLen,       \* frames per hardware buffer of the session
  sampleRate,   \* CaptureHandle.sample_rate
  unit,         \* native capture unit: "none"|"created"|"running"|"stopped"
  capPc,        \* thread owning the ingress sender: "none"|"wait"|"poll"|
                \* "send"|"done"
  capHeld,      \* the block that thread holds while sending
  callbackQ,    \* macOS/Android callback queue
  ingress,      \* ingress queue (backend_tx -> backend_rx)
  pipePc,       \* pipeline task: "none"|"recv"|"send"|"sendErr"|"done"
  pipeHeld,     \* the message the pipeline task holds at its publish point
  acc,          \* Resampler.accumulator length of the capture resampler
  outbound,     \* outbound queue (public_tx -> public_rx)
  playbackQ,    \* playback queue (playback_tx -> playback_rx)
  playPc,       \* playback consumer: "none"|"init"|"run"|"done"
  playExit,     \* why the playback consumer left: "none"|"disconnect"|"error"
  produced,     \* number of blocks the device has delivered
  playCalls,    \* number of play_audio calls made
  accepted,     \* history: ids of the blocks accepted into the ingress queue
  published,    \* history: messages the pipeline task published
  received,     \* history: messages returned to the application
  submitted,    \* history: ids of the playback requests enqueued
  played,       \* history: ids of the playback requests consumed
  dropped,      \* history: ids of the blocks a full queue refused
  eosSeen,      \* recv / recv_blocking has returned None (end of stream)
  lastPlay,     \* result of the last play_audio call
  noneCauses,   \* channel errors try_recv has turned into None so far
  sawDisconnect,\* a capture-side publish has returned Disconnected
  relQ,         \* playback requests queued at release, consumer alive
  rs,           \* a resampling step and a bare Resampler exercised on their own
  pb,           \* the playback output path exercised at the sample level
  worker,       \* the runtime's worker thread when it has only one: "free", or
                \* "app" while the application blocks it in recv_blocking
  callers,      \* application threads that share the facade: where each one
                \* is in a receive call and the messages it was returned
  norm,         \* a device block of the Windows capture format, byte by byte,
                \* and what convert_to_f32 makes of it
  ffi,          \* history: the calls of the polling receive of a binding,
                \* with what each one returned and copied
  meta          \* the metadata channel of create_backend (Windows, Android):
                \* where start and the capture thread are, what is queued,
                \* what was sent and what start returned

sessionVars ==
  <<os, facade, startResult, cfg, nativeRate, bufLen, sampleRate, rs,
    pb, worker, callers, norm, ffi, meta>>
captureVars == <<unit, capPc, capHeld, callbackQ, produced, dropped, sawDisconnect>>
pipeVars == <<pipePc, pipeHeld, acc>>
playVars == <<playbackQ, playPc, playExit, playCalls, submitted, played, lastPlay, relQ>>
recvVars == <<received, eosSeen, noneCauses>>
vars ==
  <<os, facade, startResult, cfg, nativeRate, bufLen, sampleRate, unit, capPc,
    capHeld, callbackQ, ingress, pipePc, pipeHeld, acc, outbound, playbackQ,
    playPc, playExit, produced, playCalls, accepted, published, received,
    submitted, played, dropped, eosSeen, lastPlay, noneCauses, sawDisconnect,
    relQ, rs, pb, worker, callers, norm, ffi, meta>>

(* --------------------------- channel ends ----------------------------- *)

\* backend_rx lives in the pipeline task until the task ends
IngressRxAlive == pipePc \in {"recv", "send", "sendErr"}

\* the ingress sender lives in the capture thread; on iOS in the callback
\* context, which is leaked with Box::into_raw and never freed
IngressTxAlive ==
  IF os = "ios" THEN unit # "none" ELSE capPc \in {"wait", "poll", "send"}

\* public_tx lives in the pipeline task until the task ends
OutboundTxAlive == pipePc \in {"recv", "send", "sendErr"}

\* public_rx is the facade's receiver
OutboundRxAlive == facade = "alive"

\* playback_tx is the facade's BackendHandle, never cloned
PlaybackTxAlive == facade = "alive"

\* a playback receiver that outlives its consumer
PlaybackRxLeaked == unit # "none"

\* playback_rx lives in the playback consumer; on iOS the leaked callback
\* context keeps a second reference to it
PlaybackRxAlive ==
  IF os = "ios" THEN unit # "none" ELSE playPc \in {"init", "run"}

\* a channel that accepts every send, whatever it holds
AlwaysRoom(q, cap) == TRUE

\* flume bounded channel: a send is accepted only below the capacity
HasRoom(q, cap) == Len(q) < cap

(* ---------------------------- resampler ------------------------------- *)

RECURSIVE Gcd(_, _)
Gcd(a, b) == IF b = 0 THEN a ELSE Gcd(b, a % b)

\* a chunk size rounded to the nearest integer
ChunkSizeRounded(from_rate) == (from_rate * FRAME_DURATION_MS + 500) \div 1000

ChunkSize(from_rate) == (from_rate * FRAME_DURATION_MS) \div 1000

\* frames one transform call emits for one chunk (rubato FftFixedIn, taken
\* to transform each chunk whole, in blocks of from_rate / gcd frames)
OutFrames(from_rate, to_rate) ==
  LET g == Gcd(from_rate, to_rate)
      unitIn == from_rate \div g
      chunks == (ChunkSize(from_rate) + unitIn - 1) \div unitIn
  IN chunks * (to_rate \div g)

NeedsResampling == nativeRate # cfg.sample_rate

\* process_audio_chunk: [res, acc] for one ingress block; xfail: the
\* transform reports an error on the first chunk it is given
ProcessAudioChunk(b, xfail) ==
  LET chunk == ChunkSize(nativeRate)
      total == acc + b.len
      n == IF NeedsResampling THEN total \div chunk ELSE 0
      mono == IF NeedsResampling
              THEN n * OutFrames(nativeRate, cfg.sample_rate)
              ELSE b.len
      len == IF cfg.channels = "Stereo" THEN 2 * mono ELSE mono
  IN IF ~NeedsResampling
     THEN [res |-> [ok |-> TRUE, src |-> b.id, len |-> len], acc |-> acc]
     ELSE IF xfail /\ n >= 1
     THEN [res |-> [ok |-> FALSE, src |-> b.id, len |-> 0],
           acc |-> total - chunk]
     ELSE [res |-> [ok |-> TRUE, src |-> b.id, len |-> len],
           acc |-> total % chunk]

\* whether the block makes the resampler call its transform at least once
Transforms(b) ==
  NeedsResampling /\ (acc + b.len) \div ChunkSize(nativeRate) >= 1

(* ------------------- resampling at the sample level ------------------- *)

\* rates of the Resamplers exercised on their own: chunk sizes 2, 3 and 4
UnitRates == {200, 300, 400}

\* pairs of rates whose from_rate is not a multiple of 100: chunk sizes 1
\* and 2, each a whole number of the transform's blocks
\* an input rate below 100 Hz, for which ChunkSize is 0
LowRates == {50}

OddRatePairs == {<<150, 300>>, <<250, 500>>}

\* the samples fed are 1, 2, 3, ...: the k samples after the first pos ones
Samples(pos, k) == [i \in 1..k |-> pos + i]

\* Resampler::new: empty accumulator; fed is the sequence of chunks the
\* FftFixedIn transform has been given, on which its output depends
ResamplerNew(from_rate, to_rate) ==
  [from |-> from_rate, to |-> to_rate, chunk_size |-> ChunkSize(from_rate),
   accumulator |-> <<>>, fed |-> <<>>]

\* Option<Resampler>::None, in the shape of a Resampler
NoResampler ==
  [from |-> 0, to |-> 0, chunk_size |-> 0, accumulator |-> <<>>, fed |-> <<>>]

\* a session that builds a Resampler whatever the rates
AlwaysResampler(from_rate, to_rate) == ResamplerNew(from_rate, to_rate)

\* lib.rs: the session's resampler is Some only when the rates differ
SessionResampler(from_rate, to_rate) ==
  IF from_rate # to_rate THEN ResamplerNew(from_rate, to_rate) ELSE NoResampler

\* process_into_buffer on one chunk: samples_out frames, which depend on
\* every chunk the transform has been given so far
TransformOut(r, chunk) ==
  [j \in 1..OutFrames(r.from, r.to) |-> [fed |-> Append(r.fed, chunk), j |-> j]]

\* a process loop that transforms at most one chunk per call
DrainOnce(r, output) ==
  IF Len(r.accumulator) >= r.chunk_size
  THEN LET chunk == SubSeq(r.accumulator, 1, r.chunk_size)
       IN [r |-> [r EXCEPT !.accumulator = SubSeq(@, r.chunk_size + 1, Len(@)),
                           !.fed = Append(@, chunk)],
           output |-> output \o TransformOut(r, chunk)]
  ELSE [r |-> r, output |-> output]

\* Resampler::process, its while loop: drain one chunk, transform it, extend
\* the output, until less than a chunk is left
RECURSIVE Drain(_, _)
Drain(r, output) ==
  IF Len(r.accumulator) >= r.chunk_size
  THEN LET chunk == SubSeq(r.accumulator, 1, r.chunk_size)
       IN Drain([r EXCEPT !.accumulator = SubSeq(@, r.chunk_size + 1, Len(@)),
                          !.fed = Append(@, chunk)],
                output \o TransformOut(r, chunk))
  ELSE [r |-> r, output |-> output]

\* a process that overwrites the accumulator with the new input
ProcessFresh(r, input) == Drain([r EXCEPT !.accumulator = input], <<>>)

\* Resampler::process: [r, output]
Process(r, input) == Drain([r EXCEPT !.accumulator = @ \o input], <<>>)

\* Resampler::process when process_into_buffer fails on the first chunk it
\* is given: that chunk has been drained, the `?` returns the error at once
\* and the rest of the accumulator stays as it is
ProcessFails(r, input) ==
  LET all == r.accumulator \o input
  IN [r EXCEPT !.accumulator = SubSeq(all, r.chunk_size + 1, Len(all)),
               !.fed = Append(@, SubSeq(all, 1, r.chunk_size))]

\* a stereo step that appends a second copy of the block
Twice(s) == s \o s

\* process_audio_chunk, stereo step: flat_map(|&s| [s, s])
Stereo(s) == [i \in 1..(2 * Len(s)) |-> s[(i + 1) \div 2]]

\* process_audio_chunk on samples: [r, resampled, published]
ProcessAudioSamples(samples, r, needs_stereo) ==
  LET p == IF r = NoResampler
           THEN [r |-> r, output |-> samples]
           ELSE Process(r, samples)
  IN [r |-> p.r, resampled |-> p.output,
      published |-> IF needs_stereo THEN Stereo(p.output) ELSE p.output]

\* nothing exercised yet
NoResampling ==
  [phase |-> "none", from |-> 0, to |-> 0, stereo |-> FALSE,
   a |-> NoResampler, posA |-> 0, lastIn |-> <<>>, resampled |-> <<>>,
   published |-> <<>>, outA |-> <<>>,
   b |-> NoResampler, posB |-> 0, lastInB |-> <<>>, lastOutB |-> <<>>,
   outB |-> <<>>,
   loop |-> [pc |-> "idle", ret |-> "none", r |-> NoResampler,
             chunk |-> <<>>, pos |-> 0, count |-> 0, total |-> 0]]

(* ---------------- playback output at the sample level ----------------- *)

\* backends whose playback consumer stages samples in a locked buffer that
\* the real-time render callback drains
StagingBackends == {"macos", "android", "ios"}

\* backends whose render callback takes the staging lock with try_lock
TryLockBackends == {"macos", "ios"}

Silence(n) == [i \in 1..n |-> 0]

\* resample_linear of the Android and iOS backends: ceil(len / ratio) output
\* samples, the i-th interpolated between the input samples around i * ratio
ResampleLinear(input, from_rate, to_rate) ==
  IF from_rate = to_rate THEN input
  ELSE [i \in 1..((Len(input) * to_rate + from_rate - 1) \div from_rate) |->
          LET idx0 == ((i - 1) * from_rate) \div to_rate
              idx1 == IF idx0 + 1 < Len(input) THEN idx0 + 1 ELSE idx0
          IN [lo |-> input[idx0 + 1], hi |-> input[idx1 + 1],
              frac |-> ((i - 1) * from_rate) % to_rate]]

\* what a playback consumer makes of one request: [samples, fed], fed being
\* the number of chunks its Resampler passed to the transform. Linux, macOS
\* and Windows build a Resampler for the request when the rates differ
RequestSamples(o, samples, rate, native) ==
  IF o \in ResamplerPlayback
  THEN IF rate = native
       THEN [samples |-> samples, fed |-> 0]
       ELSE LET p == Process(ResamplerNew(rate, native), samples)
            IN [samples |-> p.output, fed |-> Len(p.r.fed)]
  ELSE [samples |-> ResampleLinear(samples, rate, native), fed |-> 0]

\* the render callback with the staging lock: the first n staged samples,
\* padded with silence
RenderOut(buf, n) ==
  IF Len(buf) >= n THEN SubSeq(buf, 1, n)
  ELSE buf \o Silence(n - Len(buf))

\* a render callback that copies the staged samples and removes none
RenderKeep(buf, n) == buf

\* what the render callback leaves staged
RenderRest(buf, n) ==
  IF Len(buf) >= n THEN SubSeq(buf, n + 1, Len(buf)) ELSE <<>>

\* nothing exercised yet
NoOutput ==
  [phase |-> "none", native |-> 0, rate |-> 0, lock |-> "free",
   pc |-> "idle", pending |-> <<>>, buf |-> <<>>, device |-> <<>>,
   renderPc |-> "idle", out |-> <<>>, renders |-> 0, requests |-> 0,
   sent |-> 0, fed |-> 0, staged |-> <<>>, stream |-> <<>>]

(* ----------------------- sample format normalizer ---------------------- *)

\* byte values a device block is made of: any byte of a sample but its most
\* significant one, and the most significant one
LowBytes == {0, 255}
TopBytes == {0, 127, 128, 255}

\* (bits, is_float) of the capture formats exercised; 8-bit and 64-bit float
\* are formats convert_to_f32 does not know, and a 16-bit format is read as
\* integers whatever its subformat
Formats ==
  {<<32, TRUE>>, <<16, FALSE>>, <<16, TRUE>>, <<24, FALSE>>, <<32, FALSE>>,
   <<8, FALSE>>, <<64, TRUE>>}

Recognized(bits, is_float) ==
  \/ is_float /\ bits = 32
  \/ bits = 16
  \/ bits = 24
  \/ bits = 32 /\ ~is_float

\* 2^k
RECURSIVE Pow2(_)
Pow2(k) == IF k = 0 THEN 1 ELSE 2 * Pow2(k - 1)

\* iN::from_le_bytes: the bytes as an unsigned number, least significant
\* first, then read as a two's-complement number of 8 * Len(b) bits
RECURSIVE Unsigned(_)
Unsigned(b) == IF b = <<>> THEN 0 ELSE Head(b) + 256 * Unsigned(Tail(b))

FromLeBytes(b) ==
  LET top == b[Len(b)]
      low == Unsigned(SubSeq(b, 1, Len(b) - 1))
  IN (IF top >= 128 THEN top - 256 ELSE top) * Pow2(8 * (Len(b) - 1)) + low

RECURSIVE Log2(_)
Log2(n) == IF n < 2 THEN 0 ELSE 1 + Log2(n \div 2)

\* `as f32` on an i32: the nearest number sig * 2^exp with a significand of
\* 24 bits, ties to the even one (i32::MIN is -(2^23) * 2^8 as it is)
AsF32(v) ==
  IF v = -2147483647 - 1 THEN [sig |-> -8388608, exp |-> 8]
  ELSE LET m == IF v < 0 THEN 0 - v ELSE v
           e == IF Log2(m) > 23 THEN Log2(m) - 23 ELSE 0
           q == m \div Pow2(e)
           r == m % Pow2(e)
           up == 2 * r > Pow2(e) \/ (2 * r = Pow2(e) /\ q % 2 = 1)
           n == IF up THEN q + 1 ELSE q
       IN [sig |-> IF v < 0 THEN 0 - n ELSE n, exp |-> e]

\* a 3-byte group zero-extended to 32 bits
ZeroExtended(b) == 0

\* convert_i24_to_mono: the fourth byte given to i32::from_le_bytes
SignExtended(b) == IF b[3] >= 128 THEN 255 ELSE 0

\* one sample of the block as a fraction num / den, for 32-bit integers as
\* sig * 2^exp after the division by 2^31; a 32-bit float sample is the
\* number its four bytes encode, kept as those bytes
DecodeSample(b, bits, is_float) ==
  IF is_float /\ bits = 32 THEN [f32 |-> b]
  ELSE IF bits = 16 THEN [num |-> FromLeBytes(b), den |-> 32768]
  ELSE IF bits = 24
       THEN [num |-> FromLeBytes(<<b[1], b[2], b[3], SignExtended(b)>>),
             den |-> 8388608]
  ELSE LET f == AsF32(FromLeBytes(b))
       IN [sig |-> f.sig, exp |-> f.exp - 31]

\* slice::chunks_exact(n): the whole chunks of n elements, in order; what is
\* left over is not a chunk
RECURSIVE ChunksExact(_, _)
ChunksExact(s, n) ==
  IF Len(s) < n THEN <<>>
  ELSE <<SubSeq(s, 1, n)>> \o ChunksExact(SubSeq(s, n + 1, Len(s)), n)

\* a downmix that reads the block as planar: all the samples of the first
\* channel, then all of the second
PlanarFrames(samples, channels) ==
  LET f == Len(samples) \div channels
  IN [i \in 1..f |-> [c \in 1..channels |-> samples[(c - 1) * f + i]]]

\* the frames of an interleaved block: chunks_exact(channels)
Frames(samples, channels) == ChunksExact(samples, channels)

\* frame.iter().sum::<f32>() / channels as f32
Mean(frame) == [sum |-> frame, div |-> Len(frame)]

\* convert_*_to_mono: decode every sample, then average frame by frame
ConvertToMono(data, bits, is_float, channels) ==
  LET groups == ChunksExact(data, bits \div 8)
      samples == [k \in 1..Len(groups) |->
                    DecodeSample(groups[k], bits, is_float)]
  IN IF channels = 1 THEN samples
     ELSE LET frames == Frames(samples, channels)
          IN [i \in 1..Len(frames) |-> Mean(frames[i])]

\* convert_to_f32
ConvertToF32(data, bits, is_float, channels) ==
  IF Recognized(bits, is_float)
  THEN ConvertToMono(data, bits, is_float, channels)
  ELSE <<>>

\* no block yet
NoBlockData ==
  [phase |-> "none", bits |-> 0, is_float |-> FALSE, channels |-> 0,
   data |-> <<>>, out |-> <<>>]

(* ------------------------------- Init --------------------------------- *)

\* the metadata channel before create_backend is called
NoHandshake ==
  [start |-> "idle", thread |-> "none", q |-> <<>>, rx |-> FALSE,
   align |-> 0, held |-> <<>>, sent |-> <<>>, returns |-> <<>>]

Init ==
  /\ os \in Backends
  /\ facade = "none"
  /\ startResult = "none"
  /\ cfg = [sample_rate |-> 0, channels |-> "Mono"]
  /\ nativeRate = 0
  /\ bufLen = 0
  /\ sampleRate = 0
  /\ unit = "none"
  /\ capPc = "none"
  /\ capHeld = NoBlock
  /\ callbackQ = <<>>
  /\ ingress = <<>>
  /\ pipePc = "none"
  /\ pipeHeld = NoMsg
  /\ acc = 0
  /\ outbound = <<>>
  /\ playbackQ = <<>>
  /\ playPc = "none"
  /\ playExit = "none"
  /\ produced = 0
  /\ playCalls = 0
  /\ accepted = <<>>
  /\ published = <<>>
  /\ received = <<>>
  /\ submitted = <<>>
  /\ played = <<>>
  /\ dropped = {}
  /\ eosSeen = FALSE
  /\ lastPlay = "none"
  /\ noneCauses = {}
  /\ sawDisconnect = FALSE
  /\ relQ = <<>>
  /\ rs = NoResampling
  /\ pb = NoOutput
  /\ worker = "free"
  /\ callers = [t \in Threads |-> [pc |-> "idle", got |-> <<>>]]
  /\ norm = NoBlockData
  /\ ffi = <<>>
  /\ meta = NoHandshake

(* ------------------------------ start --------------------------------- *)

\* new without its sample_rate check
NoConfigCheck(c) == FALSE

\* lib.rs: the sample_rate check that precedes everything else in new
ConfigInvalid(c) == c.sample_rate = 0

\* what a start attempt can be made to meet: no fault, a backend error of one
\* of the kinds the backend returns, or a failing Resampler::new
StartFaults == {"none", "resampler"} \cup BackendErrorsOf(os)

\* create_backend returned Ok: the native unit runs and the backend's threads
\* and tasks exist
BackendStarted(nat, len) ==
  /\ nativeRate' = nat
  /\ bufLen' = len
  /\ unit' = "running"
  /\ capPc' = IF os = "ios" THEN "none" ELSE "wait"
  /\ playPc' = IF os \in PlaybackInitBackends THEN "init" ELSE "run"

\* CaptureHandle::new(c), called inside a Tokio runtime (rt) or outside one
Start(c, nat, len, rt, fault) ==
  /\ facade = "none"
  /\ startResult = "none"
  /\ cfg' = c
  /\ UNCHANGED <<os, capHeld, callbackQ, ingress, pipeHeld, acc, outbound,
                 playbackQ, playExit, produced, playCalls, accepted, published,
                 received, submitted, played, dropped, eosSeen, lastPlay,
                 noneCauses, sawDisconnect, relQ, rs, pb,
                 worker, callers, norm, ffi, meta>>
  /\ IF ConfigInvalid(c)
     THEN /\ startResult' = "InvalidConfig"
          /\ facade' = "failed"
          /\ UNCHANGED <<nativeRate, bufLen, sampleRate, unit, capPc, pipePc,
                         playPc>>
     ELSE IF fault \in ErrorKinds
     THEN \* create_backend returned an error: what it had acquired or spawned
          \* by then ends with the channel ends dropped on the way out, except
          \* the iOS audio unit instance, which no error path disposes of
          /\ startResult' = fault
          /\ facade' = "failed"
          /\ unit' \in (IF os = "ios" THEN {"none", "created"} ELSE {"none"})
          /\ UNCHANGED <<nativeRate, bufLen, sampleRate, capPc, pipePc, playPc>>
     ELSE IF ~rt /\ os \in TokioBackends
     THEN \* tokio::spawn / spawn_blocking inside create_backend panics; the
          \* unwinding drops the native stream acquired so far
          /\ startResult' = "panic"
          /\ facade' = "failed"
          /\ unit' = "stopped"
          /\ UNCHANGED <<nativeRate, bufLen, sampleRate, capPc, pipePc, playPc>>
     ELSE IF nat # c.sample_rate /\ fault = "resampler"
     THEN \* Resampler::new failed after the backend was started: backend_rx
          \* and the BackendHandle are dropped on the way out
          /\ startResult' = "BackendError"
          /\ facade' = "failed"
          /\ BackendStarted(nat, len)
          /\ pipePc' = "done"
          /\ UNCHANGED sampleRate
     ELSE IF ~rt
     THEN \* tokio::spawn of the pipeline task panics (lib.rs:87)
          /\ startResult' = "panic"
          /\ facade' = "failed"
          /\ BackendStarted(nat, len)
          /\ pipePc' = "done"
          /\ UNCHANGED sampleRate
     ELSE /\ startResult' = "Ok"
          /\ facade' = "alive"
          /\ BackendStarted(nat, len)
          /\ pipePc' = "recv"
          /\ sampleRate' = c.sample_rate

\* a facade that reports the rate create_backend returned
BackendNativeRate == nativeRate

\* CaptureHandle::native_sample_rate
NativeSampleRate == sampleRate

(* --------------------------- capture side ----------------------------- *)

NewBlock == [id |-> produced + 1, len |-> bufLen]

\* Linux / Windows capture loop: one device read that returns a buffer
CaptureRead(max) ==
  /\ os \in ReaderBackends
  /\ capPc = "wait"
  /\ unit = "running"
  /\ produced < max
  /\ capHeld' = NewBlock
  /\ capPc' = "send"
  /\ produced' = produced + 1
  /\ UNCHANGED <<sessionVars, pipeVars, playVars, recvVars, unit, callbackQ,
                 dropped, sawDisconnect, ingress, outbound, accepted,
                 published>>

\* Linux capture loop: simple.read fails, the loop breaks, the thread ends and
\* drops the stream and the ingress sender
CaptureReadFail ==
  /\ os = "linux"
  /\ capPc = "wait"
  /\ capPc' = "done"
  /\ unit' = "stopped"
  /\ ingress' = IF IngressRxAlive THEN ingress ELSE <<>>
  /\ UNCHANGED <<sessionVars, pipeVars, playVars, recvVars, capHeld, callbackQ,
                 produced, dropped, sawDisconnect, outbound, accepted,
                 published>>

\* Windows capture loop: wait_for_event(100) returns, by the event or by its
\* 100 ms timeout, and the loop goes on to read the device
CapturePoll ==
  /\ os = "windows"
  /\ capPc = "wait"
  /\ unit = "running"
  /\ capPc' = "poll"
  /\ UNCHANGED <<sessionVars, pipeVars, playVars, recvVars, unit, capHeld,
                 callbackQ, produced, dropped, sawDisconnect, ingress,
                 outbound, accepted, published>>

\* Windows capture loop: read_from_device fails, or returns zero frames, or
\* the conversion yields no sample: continue, back to wait_for_event
CaptureNoData ==
  /\ os = "windows"
  /\ capPc = "poll"
  /\ capPc' = "wait"
  /\ UNCHANGED <<sessionVars, pipeVars, playVars, recvVars, unit, capHeld,
                 callbackQ, produced, dropped, sawDisconnect, ingress,
                 outbound, accepted, published>>

\* the real-time input callback: try_send of the new block, into the callback
\* queue (macOS, Android) or straight into the ingress queue (iOS)
Callback(max) ==
  /\ os \in CallbackBackends
  /\ unit = "running"
  /\ produced < max
  /\ produced' = produced + 1
  /\ UNCHANGED <<sessionVars, pipeVars, playVars, recvVars, unit, capPc,
                 capHeld, outbound, published>>
  /\ IF os \in ForwardBackends
     THEN /\ IF HasRoom(callbackQ, CallbackCap)
             THEN callbackQ' = Append(callbackQ, NewBlock) /\ UNCHANGED dropped
             ELSE dropped' = dropped \cup {NewBlock.id} /\ UNCHANGED callbackQ
          /\ UNCHANGED <<ingress, accepted, sawDisconnect>>
     ELSE /\ UNCHANGED callbackQ
          /\ IF ~IngressRxAlive
             THEN /\ sawDisconnect' = TRUE
                  /\ UNCHANGED <<ingress, accepted, dropped>>
             ELSE IF HasRoom(ingress, IngressCap)
             THEN /\ ingress' = Append(ingress, NewBlock)
                  /\ accepted' = Append(accepted, NewBlock.id)
                  /\ UNCHANGED <<dropped, sawDisconnect>>
             ELSE /\ dropped' = dropped \cup {NewBlock.id}
                  /\ UNCHANGED <<ingress, accepted, sawDisconnect>>

\* macOS forwarder task / Android audio thread: take one block from the
\* callback queue
Forward ==
  /\ os \in ForwardBackends
  /\ capPc = "wait"
  /\ callbackQ # <<>>
  /\ capHeld' = Head(callbackQ)
  /\ callbackQ' = Tail(callbackQ)
  /\ capPc' = "send"
  /\ UNCHANGED <<sessionVars, pipeVars, playVars, recvVars, unit, produced,
                 dropped, sawDisconnect, ingress, outbound, accepted,
                 published>>

\* the thread's send into the ingress queue: it waits while the queue is full
\* and fails once the pipeline task has dropped the receiver; on failure the
\* loop breaks, the thread ends and its native stream is stopped
CaptureSend ==
  /\ os \in ThreadBackends
  /\ capPc = "send"
  /\ IngressRxAlive => HasRoom(ingress, IngressCap)
  /\ capHeld' = NoBlock
  /\ UNCHANGED <<sessionVars, pipeVars, playVars, recvVars, produced, dropped,
                 outbound, published>>
  /\ IF IngressRxAlive
     THEN /\ ingress' = Append(ingress, capHeld)
          /\ accepted' = Append(accepted, capHeld.id)
          /\ capPc' = "wait"
          /\ UNCHANGED <<unit, callbackQ, sawDisconnect>>
     ELSE /\ capPc' = "done"
          /\ unit' = "stopped"
          /\ sawDisconnect' = TRUE
          /\ callbackQ' = <<>>
          /\ ingress' = <<>>
          /\ UNCHANGED accepted

(* --------------------------- pipeline task ---------------------------- *)

\* a receive that hands out the newest block of the queue
NextIngressNewest(q) == q[Len(q)]

\* the block recv_async hands to the pipeline task
NextIngress(q) == Head(q)

\* a publish that overwrites what the queue holds
PublishOver(q, m) == <<m>>

\* the queue after a publish
Publish(q, m) == Append(q, m)

\* backend_rx.recv_async() returns a block; process_audio_chunk runs on it
PipelineRecv(xfail) ==
  /\ pipePc = "recv"
  /\ ingress # <<>>
  /\ xfail => Transforms(NextIngress(ingress))
  /\ LET r == ProcessAudioChunk(NextIngress(ingress), xfail)
     IN /\ pipeHeld' = r.res
        /\ acc' = r.acc
        /\ pipePc' = IF r.res.ok THEN "send" ELSE "sendErr"
  /\ ingress' = Tail(ingress)
  /\ UNCHANGED <<sessionVars, captureVars, playVars, recvVars, outbound,
                 accepted, published>>

\* backend_rx.recv_async() fails: the queue is empty and every sender is gone
PipelineIngressClosed ==
  /\ pipePc = "recv"
  /\ ingress = <<>>
  /\ ~IngressTxAlive
  /\ pipePc' = "done"
  /\ outbound' = IF OutboundRxAlive THEN outbound ELSE <<>>
  /\ UNCHANGED <<sessionVars, captureVars, playVars, recvVars, pipeHeld, acc,
                 ingress, accepted, published>>

\* a pipeline loop that goes on receiving after it published an error
KeepsRunning(pc) == "recv"

\* where the pipeline loop goes after a publish: back to recv_async after a
\* block, out of the loop (break) after an error message
AfterPublish(pc) == IF pc = "send" THEN "recv" ELSE "done"

\* public_tx.send_async(..): suspended while the outbound queue is full, an
\* error once the facade's receiver is gone; after an error message, or on a
\* failed send, the loop breaks and the task ends
PipelineSend ==
  /\ pipePc \in {"send", "sendErr"}
  /\ OutboundRxAlive => HasRoom(outbound, OutboundCap)
  /\ pipeHeld' = NoMsg
  /\ UNCHANGED <<sessionVars, captureVars, playVars, recvVars, acc, accepted>>
  /\ IF OutboundRxAlive
     THEN /\ outbound' = Publish(outbound, pipeHeld)
          /\ published' = Append(published, pipeHeld)
          /\ pipePc' = AfterPublish(pipePc)
          /\ ingress' = IF pipePc = "send" \/ IngressTxAlive
                        THEN ingress ELSE <<>>
     ELSE /\ outbound' = <<>>
          /\ pipePc' = "done"
          /\ ingress' = IF IngressTxAlive THEN ingress ELSE <<>>
          /\ UNCHANGED published

(* ------------------------------ consumer ------------------------------ *)

\* a receive that reports disconnection whenever the queue is empty
ChanRecvNoWait(q, txAlive) == IF q # <<>> THEN "Ok" ELSE "Disconnected"

\* flume's receive on (queue, senders alive): a message, nothing yet, or
\* disconnected
ChanRecv(q, txAlive) ==
  IF q # <<>> THEN "Ok" ELSE IF txAlive THEN "Empty" ELSE "Disconnected"

\* Result::ok(): Ok(m) becomes Some(m), every error becomes None
OkOption(r) == IF r = "Ok" THEN "Some" ELSE "None"

\* recv().await / recv_blocking(): waits while the channel is empty and alive
RecvOp ==
  /\ facade = "alive"
  /\ ChanRecv(outbound, OutboundTxAlive) # "Empty"
  /\ eosSeen' = (eosSeen \/ OkOption(ChanRecv(outbound, OutboundTxAlive)) = "None")
  /\ IF outbound # <<>>
     THEN /\ received' = Append(received, Head(outbound))
          /\ outbound' = Tail(outbound)
     ELSE UNCHANGED <<received, outbound>>
  /\ UNCHANGED <<sessionVars, captureVars, pipeVars, playVars, noneCauses,
                 ingress, accepted, published>>

\* CaptureHandle::recv
Recv == RecvOp

\* CaptureHandle::recv_blocking
RecvBlocking == RecvOp

\* try_recv built on the waiting receive
TryRecvWaits == RecvOp

\* try_recv(): never waits
TryRecv ==
  /\ facade = "alive"
  /\ UNCHANGED eosSeen
  /\ IF outbound # <<>>
     THEN /\ received' = Append(received, Head(outbound))
          /\ outbound' = Tail(outbound)
          /\ UNCHANGED noneCauses
     ELSE /\ noneCauses' = noneCauses \cup {ChanRecv(outbound, OutboundTxAlive)}
          /\ UNCHANGED <<received, outbound>>
  /\ UNCHANGED <<sessionVars, captureVars, pipeVars, playVars, ingress,
                 accepted, published>>

\* a receive that hands out the first message and leaves it in the queue
Peeked(q) == q

\* the queue after a receive has taken its first message
Taken(q) == Tail(q)

\* what a receive of an application thread leaves alone
callRest ==
  <<os, facade, startResult, cfg, nativeRate, bufLen, sampleRate, rs, pb,
    worker, norm, ffi, meta, captureVars, pipeVars, playVars, ingress, accepted, published>>

\* thread t calls recv (and awaits it) or recv_blocking
CallRecv(t) ==
  /\ facade = "alive"
  /\ callers[t].pc = "idle"
  /\ callers' = [callers EXCEPT ![t].pc = "waiting"]
  /\ UNCHANGED <<callRest, recvVars, outbound>>

\* the receive of thread t completes: under the channel's lock it takes the
\* first message, or finds the channel empty and disconnected
ReturnRecv(t) ==
  /\ facade = "alive"
  /\ callers[t].pc = "waiting"
  /\ ChanRecv(outbound, OutboundTxAlive) # "Empty"
  /\ eosSeen' = (eosSeen \/ outbound = <<>>)
  /\ IF outbound # <<>>
     THEN /\ callers' = [callers EXCEPT ![t].pc = "idle",
                                        ![t].got = Append(@, Head(outbound))]
          /\ received' = Append(received, Head(outbound))
          /\ outbound' = Taken(outbound)
     ELSE /\ callers' = [callers EXCEPT ![t].pc = "idle"]
          /\ UNCHANGED <<received, outbound>>
  /\ UNCHANGED <<callRest, noneCauses>>

\* try_recv of thread t, which is in no other call
TryRecvBy(t) ==
  /\ facade = "alive"
  /\ callers[t].pc = "idle"
  /\ IF outbound # <<>>
     THEN /\ callers' = [callers EXCEPT ![t].got = Append(@, Head(outbound))]
          /\ received' = Append(received, Head(outbound))
          /\ outbound' = Taken(outbound)
          /\ UNCHANGED noneCauses
     ELSE /\ noneCauses' = noneCauses \cup {ChanRecv(outbound, OutboundTxAlive)}
          /\ UNCHANGED <<callers, received, outbound>>
  /\ UNCHANGED <<callRest, eosSeen>>

\* what a receive on the worker thread leaves alone
recvRest ==
  <<os, facade, startResult, cfg, nativeRate, bufLen, sampleRate, rs, pb,
    callers, norm, ffi, meta, captureVars, pipeVars, playVars, noneCauses, ingress, accepted,
    published>>

\* recv_blocking called from a task that runs on the only worker thread of
\* the runtime: receiver.recv() returns at once when a message is queued or
\* the channel is disconnected, and parks the thread otherwise
RecvBlockingOnWorker ==
  /\ facade = "alive"
  /\ worker = "free"
  /\ IF ChanRecv(outbound, OutboundTxAlive) = "Empty"
     THEN /\ worker' = "app"
          /\ UNCHANGED <<received, outbound, eosSeen>>
     ELSE /\ worker' = "free"
          /\ eosSeen' = (eosSeen \/ outbound = <<>>)
          /\ IF outbound # <<>>
             THEN /\ received' = Append(received, Head(outbound))
                  /\ outbound' = Tail(outbound)
             ELSE UNCHANGED <<received, outbound>>
  /\ UNCHANGED recvRest

\* the parked receiver.recv() returns: a message has been published, or the
\* pipeline task has dropped the sender
RecvBlockingWakes ==
  /\ facade = "alive"
  /\ worker = "app"
  /\ ChanRecv(outbound, OutboundTxAlive) # "Empty"
  /\ worker' = "free"
  /\ eosSeen' = (eosSeen \/ outbound = <<>>)
  /\ IF outbound # <<>>
     THEN /\ received' = Append(received, Head(outbound))
          /\ outbound' = Tail(outbound)
     ELSE UNCHANGED <<received, outbound>>
  /\ UNCHANGED recvRest

\* the pipeline task is polled by the worker thread, when that thread is not
\* parked in a blocking call
WorkerPipelineRecv == worker = "free" /\ PipelineRecv(FALSE)

WorkerPipelineSend == worker = "free" /\ PipelineSend

\* dropping the CaptureHandle: the outbound receiver and the BackendHandle
\* (the playback sender) are dropped
Release ==
  /\ facade = "alive"
  /\ facade' = "released"
  /\ relQ' = IF playPc \in {"init", "run"}
             THEN [i \in 1..Len(playbackQ) |-> playbackQ[i].id] ELSE <<>>
  /\ outbound' = IF OutboundTxAlive THEN outbound ELSE <<>>
  /\ playbackQ' = IF PlaybackRxAlive THEN playbackQ ELSE <<>>
  /\ UNCHANGED <<os, startResult, cfg, nativeRate, bufLen, sampleRate, rs,
                 pb, worker, callers, norm, ffi, meta, captureVars, pipeVars, recvVars, playPc,
                 playExit,
                 playCalls,
                 submitted, played, lastPlay, ingress, accepted, published>>

\* the backends that are reached through a binding with an explicit stop
BindingBackends == {"android", "ios"}

\* the explicit stop of a binding: nativeStop sets CAPTURE to None,
\* capture_stop rebuilds the Box from the handle it is given unless it is null.
\* On a running capture both drop the CaptureHandle; capture_stop then drops
\* the Tokio runtime, and with it the pipeline task where it is suspended.
\* With nothing to stop (no start, a failed start: CAPTURE is None, the handle
\* is null) neither does anything, and nativeStop does nothing after a stop.
\* capture_stop after a stop frees the same Box a second time, which is
\* undefined: it may pass unnoticed or corrupt the heap or abort.
Stop ==
  /\ os \in BindingBackends
  /\ facade \in {"none", "failed", "alive", "stopped"}
  /\ IF facade = "alive"
     THEN /\ facade' = "stopped"
          /\ relQ' = IF playPc \in {"init", "run"}
                     THEN [i \in 1..Len(playbackQ) |-> playbackQ[i].id]
                     ELSE <<>>
          /\ playbackQ' = IF PlaybackRxAlive THEN playbackQ ELSE <<>>
          /\ IF os = "ios"
             THEN /\ pipePc' = "done"
                  /\ pipeHeld' = NoMsg
                  /\ outbound' = <<>>
                  /\ ingress' = IF IngressTxAlive THEN ingress ELSE <<>>
             ELSE /\ outbound' = IF OutboundTxAlive THEN outbound ELSE <<>>
                  /\ UNCHANGED <<pipePc, pipeHeld, ingress>>
          /\ UNCHANGED <<os, startResult, cfg, nativeRate, bufLen, sampleRate,
                         rs, pb, worker, callers, norm, ffi, meta, captureVars, acc, recvVars,
                         playPc,
                         playExit,
                         playCalls, submitted, played, lastPlay, accepted,
                         published>>
     ELSE IF facade = "stopped" /\ os = "ios"
     THEN /\ facade' \in {"stopped", "fault"}
          /\ UNCHANGED <<os, startResult, cfg, nativeRate, bufLen, sampleRate,
                         rs, pb, worker, callers, norm, ffi, meta, captureVars, pipeVars,
                         playVars,
                         recvVars,
                         ingress, outbound, accepted, published>>
     ELSE UNCHANGED vars

\* the Android binding's runtime thread ends once nativeStop dropped the
\* shutdown sender: the runtime is dropped, and with it the pipeline task
\* where it is suspended
RuntimeShutdown ==
  /\ os = "android"
  /\ facade = "stopped"
  /\ pipePc \in {"recv", "send", "sendErr"}
  /\ pipePc' = "done"
  /\ pipeHeld' = NoMsg
  /\ outbound' = <<>>
  /\ ingress' = IF IngressTxAlive THEN ingress ELSE <<>>
  /\ UNCHANGED <<sessionVars, captureVars, playVars, recvVars, acc, accepted,
                 published>>

(* ------------------------------ playback ------------------------------ *)

\* a play_audio that would publish with try_send: a full queue refuses the
\* request at once
PlayAudioTrySend(rate, max) ==
  /\ facade = "alive"
  /\ playCalls < max
  /\ playCalls' = playCalls + 1
  /\ IF PlaybackRxAlive /\ HasRoom(playbackQ, PlaybackCap)
     THEN /\ playbackQ' = Append(playbackQ, [id |-> playCalls + 1, rate |-> rate])
          /\ submitted' = Append(submitted, playCalls + 1)
          /\ lastPlay' = "Ok"
     ELSE /\ lastPlay' = "BackendError"
          /\ UNCHANGED <<playbackQ, submitted>>
  /\ UNCHANGED <<sessionVars, captureVars, pipeVars, recvVars, playPc, playExit,
                 played, relQ, ingress, outbound, accepted, published>>

\* BackendHandle::play_audio: a blocking send of one PlaybackRequest
PlayAudio(rate, max) ==
  /\ facade = "alive"
  /\ playCalls < max
  /\ PlaybackRxAlive => HasRoom(playbackQ, PlaybackCap)
  /\ playCalls' = playCalls + 1
  /\ IF PlaybackRxAlive
     THEN /\ playbackQ' = Append(playbackQ, [id |-> playCalls + 1, rate |-> rate])
          /\ submitted' = Append(submitted, playCalls + 1)
          /\ lastPlay' = "Ok"
     ELSE /\ lastPlay' = "BackendError"
          /\ UNCHANGED <<playbackQ, submitted>>
  /\ UNCHANGED <<sessionVars, captureVars, pipeVars, recvVars, playPc, playExit,
                 played, relQ, ingress, outbound, accepted, published>>

\* the playback consumer leaves: its receiver is dropped, except on iOS where
\* the leaked callback context keeps it; rest is what stays in the queue
PlaybackLeave(why, rest) ==
  /\ playPc' = "done"
  /\ playExit' = why
  /\ playbackQ' = IF PlaybackTxAlive \/ os = "ios" THEN rest ELSE <<>>

\* Linux run_playback / Windows playback_loop: the device set-up before the
\* loop, which may fail and end the thread
PlaybackInit(ok) ==
  /\ playPc = "init"
  /\ IF ok
     THEN playPc' = "run" /\ UNCHANGED <<playExit, playbackQ>>
     ELSE PlaybackLeave("error", playbackQ)
  /\ UNCHANGED <<sessionVars, captureVars, pipeVars, recvVars, playCalls,
                 submitted, played, lastPlay, relQ, ingress, outbound, accepted,
                 published>>

\* rate the playback consumer compares a request's rate with
PlaybackNativeRate == IF os = "linux" THEN SAMPLE_RATE ELSE nativeRate

\* a request the consumer cannot survive: a Resampler from rate 0
MustFail(req) ==
  os \in ResamplerPlayback /\ req.rate # PlaybackNativeRate /\ req.rate = 0

\* a request the consumer may fail on: a resampling error, on Linux a failed
\* write to the device, on iOS / Android resample_linear from rate 0 (its
\* output length overflows unless the request carries no sample)
MayFail(req) ==
  \/ os \in ResamplerPlayback /\ req.rate # PlaybackNativeRate
  \/ os = "linux"
  \/ os \notin ResamplerPlayback /\ req.rate = 0

\* one iteration of the playback loop on a received request
PlaybackTake(pfail) ==
  /\ playPc = "run"
  /\ playbackQ # <<>>
  /\ LET req == Head(playbackQ)
     IN /\ pfail \in (IF MustFail(req) THEN {TRUE}
                      ELSE IF MayFail(req) THEN BOOLEAN ELSE {FALSE})
        /\ IF pfail
           THEN /\ PlaybackLeave("error", Tail(playbackQ))
                /\ UNCHANGED played
           ELSE /\ playbackQ' = Tail(playbackQ)
                /\ played' = Append(played, req.id)
                /\ UNCHANGED <<playPc, playExit>>
  /\ UNCHANGED <<sessionVars, captureVars, pipeVars, recvVars, playCalls,
                 submitted, lastPlay, relQ, ingress, outbound, accepted,
                 published>>

\* playback_rx.recv() fails: the queue is empty and the facade's sender is gone
PlaybackDisconnect ==
  /\ playPc = "run"
  /\ playbackQ = <<>>
  /\ ~PlaybackTxAlive
  /\ PlaybackLeave("disconnect", playbackQ)
  /\ UNCHANGED <<sessionVars, captureVars, pipeVars, recvVars,
                 playCalls, submitted, played, lastPlay, relQ, ingress, outbound,
                 accepted, published>>

(* ------------------------- the specification -------------------------- *)

Next ==
  \/ \E c \in Configs, nat \in NativeRatesOf(os), len \in BlockLensOf(os),
        rt \in BOOLEAN, fault \in StartFaults :
       Start(c, nat, len, rt, fault)
  \/ CaptureRead(MaxBlocks)
  \/ CaptureReadFail
  \/ Callback(MaxBlocks)
  \/ Forward
  \/ CaptureSend
  \/ \E xfail \in BOOLEAN : PipelineRecv(xfail)
  \/ PipelineIngressClosed
  \/ PipelineSend
  \/ Recv
  \/ RecvBlocking
  \/ TryRecv
  \/ Release
  \/ \E rate \in PlayRates : PlayAudio(rate, MaxPlay)
  \/ \E ok \in BOOLEAN : PlaybackInit(ok)
  \/ \E pfail \in BOOLEAN : PlaybackTake(pfail)
  \/ PlaybackDisconnect
  \/ Stop
  \/ RuntimeShutdown

Spec == Init /\ [][Next]_vars

\* the capture path alone: the application never calls play_audio
NextCapture ==
  \/ \E c \in Configs, nat \in NativeRatesOf(os), len \in BlockLensOf(os),
        rt \in BOOLEAN, fault \in StartFaults :
       Start(c, nat, len, rt, fault)
  \/ CaptureRead(CaptureBlocks)
  \/ CaptureReadFail
  \/ Callback(CaptureBlocks)
  \/ Forward
  \/ CaptureSend
  \/ \E xfail \in BOOLEAN : PipelineRecv(xfail)
  \/ PipelineIngressClosed
  \/ PipelineSend
  \/ Recv
  \/ RecvBlocking
  \/ TryRecv
  \/ Release
  \/ \E ok \in BOOLEAN : PlaybackInit(ok)
  \/ PlaybackDisconnect

SpecCapture == Init /\ [][NextCapture]_vars

\* the playback path alone: the device delivers no block
NextPlayback ==
  \/ \E c \in Configs, nat \in NativeRatesOf(os), len \in BlockLensOf(os),
        rt \in BOOLEAN, fault \in StartFaults :
       Start(c, nat, len, rt, fault)
  \/ Release
  \/ \E rate \in PlayRates : PlayAudio(rate, PlaybackCalls)
  \/ \E ok \in BOOLEAN : PlaybackInit(ok)
  \/ \E pfail \in BOOLEAN : PlaybackTake(pfail)
  \/ PlaybackDisconnect

SpecPlayback == Init /\ [][NextPlayback]_vars

\* the consumer has stopped: a started session whose application calls neither
\* a receive operation nor the release, while the device keeps delivering
\* blocks, or the application keeps submitting playback requests
NextStalled ==
  \/ Start([sample_rate |-> SAMPLE_RATE, channels |-> "Mono"], SAMPLE_RATE,
           BUFFER_FRAMES, TRUE, "none")
  \/ playCalls = 0 /\ CaptureRead(StalledBlocks)
  \/ playCalls = 0 /\ Callback(StalledBlocks)
  \/ Forward
  \/ CaptureSend
  \/ PipelineRecv(FALSE)
  \/ PipelineSend
  \/ produced = 0 /\ PlayAudio(SAMPLE_RATE, StalledCalls)
  \/ \E ok \in BOOLEAN : PlaybackInit(ok)
  \/ \E pfail \in BOOLEAN : PlaybackTake(pfail)

SpecStalled == Init /\ [][NextStalled]_vars

\* a slow consumer: a session started on Linux, whose capture thread keeps
\* reading 480-frame blocks at 48 kHz while the application receives a few
\* messages and then releases the facade; no playback
NextBackpressure ==
  \/ \E rate \in {16000, SAMPLE_RATE} :
       /\ os = "linux"
       /\ Start([sample_rate |-> rate, channels |-> "Mono"], SAMPLE_RATE,
                BUFFER_FRAMES, TRUE, "none")
  \/ CaptureRead(StalledBlocks)
  \/ CaptureSend
  \/ \E xfail \in BOOLEAN : PipelineRecv(xfail)
  \/ PipelineSend
  \/ Len(received) < SlowRecvs /\ Recv
  \/ Release

SpecBackpressure == Init /\ [][NextBackpressure]_vars

\* the Windows capture loop with its polling made explicit: a session whose
\* device delivers a few blocks and then nothing, and whose application
\* releases the facade
NextPolling ==
  \/ \E c \in Configs, nat \in NativeRatesOf(os), len \in BlockLensOf(os) :
       /\ os = "windows"
       /\ Start(c, nat, len, TRUE, "none")
  \/ CapturePoll
  \/ CaptureNoData
  \/ CaptureRead(CaptureBlocks)
  \/ CaptureSend
  \/ PipelineRecv(FALSE)
  \/ PipelineSend
  \/ Recv
  \/ Release

\* each thread and task takes its next step when it can; nothing makes the
\* device deliver a block
SpecPolling ==
  /\ Init
  /\ [][NextPolling]_vars
  /\ WF_vars(CapturePoll)
  /\ WF_vars(CaptureNoData)
  /\ WF_vars(CaptureSend)
  /\ WF_vars(PipelineRecv(FALSE))
  /\ WF_vars(PipelineSend)

\* capture and playback side by side on the backends whose playback consumer
\* resamples with a Resampler; the facade is kept for the whole behaviour
NextPlaybackFailure ==
  \/ \E c \in Configs, nat \in NativeRatesOf(os), len \in BlockLensOf(os) :
       /\ os \in ResamplerPlayback
       /\ Start(c, nat, len, TRUE, "none")
  \/ CaptureRead(MaxBlocks)
  \/ Callback(MaxBlocks)
  \/ Forward
  \/ CaptureSend
  \/ PipelineRecv(FALSE)
  \/ PipelineSend
  \/ Recv
  \/ \E rate \in PlayRates : PlayAudio(rate, PlaybackCalls)
  \/ PlaybackInit(TRUE)
  \/ \E pfail \in BOOLEAN : PlaybackTake(pfail)

SpecPlaybackFailure == Init /\ [][NextPlaybackFailure]_vars

\* a facade shared by several application threads, each of which calls the
\* receive operations on its own; no playback
NextSharedFacade ==
  \/ \E c \in Configs, nat \in NativeRatesOf(os), len \in BlockLensOf(os) :
       /\ os \in ReaderBackends
       /\ Start(c, nat, len, TRUE, "none")
  \/ CaptureRead(CaptureBlocks)
  \/ CaptureSend
  \/ \E xfail \in BOOLEAN : PipelineRecv(xfail)
  \/ PipelineSend
  \/ \E t \in Threads : CallRecv(t)
  \/ \E t \in Threads : ReturnRecv(t)
  \/ \E t \in Threads : TryRecvBy(t)

SpecSharedFacade == Init /\ [][NextSharedFacade]_vars

\* a runtime with a single worker thread (current_thread, or worker_threads
\* = 1): the application task that started the session calls recv_blocking
\* on that thread, the backend's capture loop runs on a spawn_blocking thread
\* of its own, the pipeline task runs when the worker thread polls it
NextSingleWorker ==
  \/ \E c \in Configs, nat \in NativeRatesOf(os), len \in BlockLensOf(os) :
       /\ os \in ReaderBackends
       /\ Start(c, nat, len, TRUE, "none")
  \/ CaptureRead(CaptureBlocks)
  \/ CaptureSend
  \/ WorkerPipelineRecv
  \/ WorkerPipelineSend
  \/ RecvBlockingOnWorker
  \/ worker = "free" /\ Release

SpecSingleWorker == Init /\ [][NextSingleWorker]_vars

\* the other variables of the program, untouched while the playback output
\* path is exercised on its own
outputRest ==
  <<os, facade, startResult, cfg, nativeRate, bufLen, sampleRate, ingress,
    outbound, accepted, published, captureVars, pipeVars, playVars, recvVars,
    rs, worker, callers, norm, ffi, meta>>

\* a playback session: the native output rate and the rate of its requests
OutputSetup(native, rate) ==
  /\ pb.phase = "none"
  /\ pb' = [NoOutput EXCEPT !.phase = "ready", !.native = native,
                            !.rate = rate]
  /\ UNCHANGED outputRest

\* the playback consumer receives a request of the next k samples and
\* converts it; Linux and Windows write the result to the device, the others
\* go on to stage it
OutputRequest(k) ==
  /\ pb.phase = "ready"
  /\ pb.pc = "idle"
  /\ pb.requests < MaxRequests
  /\ LET r == RequestSamples(os, Samples(pb.sent, k), pb.rate, pb.native)
     IN pb' = [pb EXCEPT !.requests = @ + 1,
                         !.sent = @ + k,
                         !.fed = @ + r.fed,
                         !.pending = IF os \in StagingBackends
                                     THEN r.samples ELSE <<>>,
                         !.pc = IF os \in StagingBackends
                                THEN "lock" ELSE "idle",
                         !.device = IF os \in StagingBackends
                                    THEN @ ELSE @ \o r.samples]
  /\ UNCHANGED outputRest

\* the playback consumer's lock() on the staging buffer
SubmitLock ==
  /\ pb.pc = "lock"
  /\ pb.lock = "free"
  /\ pb' = [pb EXCEPT !.lock = "submit", !.pc = "extend"]
  /\ UNCHANGED outputRest

\* buffer.extend(samples), after which the guard is dropped
SubmitExtend ==
  /\ pb.pc = "extend"
  /\ pb' = [pb EXCEPT !.buf = @ \o pb.pending,
                      !.staged = @ \o pb.pending,
                      !.pending = <<>>,
                      !.lock = "free",
                      !.pc = "idle"]
  /\ UNCHANGED outputRest

\* the real-time render callback is entered: with the lock free it drains
\* the staging buffer into its output; with the lock held, try_lock fails
\* and the output is silence (macOS, iOS), lock() waits (Android)
Render ==
  /\ os \in StagingBackends
  /\ pb.phase = "ready"
  /\ pb.renderPc = "idle"
  /\ pb.renders < MaxRenders
  /\ pb' = IF pb.lock = "free"
           THEN [pb EXCEPT !.renders = @ + 1,
                           !.out = RenderOut(pb.buf, RenderFrames),
                           !.stream = @ \o RenderOut(pb.buf, RenderFrames),
                           !.buf = RenderRest(pb.buf, RenderFrames)]
           ELSE IF os \in TryLockBackends
           THEN [pb EXCEPT !.renders = @ + 1,
                           !.out = Silence(RenderFrames),
                           !.stream = @ \o Silence(RenderFrames)]
           ELSE [pb EXCEPT !.renders = @ + 1, !.renderPc = "blocked"]
  /\ UNCHANGED outputRest

\* the Android render callback gets the lock it waited for
RenderResume ==
  /\ pb.renderPc = "blocked"
  /\ pb.lock = "free"
  /\ pb' = [pb EXCEPT !.renderPc = "idle",
                      !.out = RenderOut(pb.buf, RenderFrames),
                      !.stream = @ \o RenderOut(pb.buf, RenderFrames),
                      !.buf = RenderRest(pb.buf, RenderFrames)]
  /\ UNCHANGED outputRest

\* the playback output path on its own
NextOutput ==
  \/ \E native \in UnitRates, rate \in UnitRates : OutputSetup(native, rate)
  \/ \E k \in 1..MaxRequestLen : OutputRequest(k)
  \/ SubmitLock
  \/ SubmitExtend
  \/ Render
  \/ RenderResume

SpecOutput == Init /\ [][NextOutput]_vars

\* the other variables of the program, untouched while resampling is
\* exercised on its own
programVars ==
  <<os, facade, startResult, cfg, nativeRate, bufLen, sampleRate, ingress,
    outbound, accepted, published, captureVars, pipeVars, playVars, recvVars,
    pb, worker, callers, norm, ffi, meta>>

\* CaptureHandle::new, its resampler only, next to a bare Resampler::new for
\* the same pair of rates
ResamplerSetup(from_rate, to_rate, needs_stereo) ==
  /\ rs.phase = "none"
  /\ rs' = [NoResampling EXCEPT !.phase = "ready",
                                !.from = from_rate,
                                !.to = to_rate,
                                !.stereo = needs_stereo,
                                !.a = SessionResampler(from_rate, to_rate),
                                !.b = ResamplerNew(from_rate, to_rate)]
  /\ UNCHANGED programVars

\* the pipeline's process_audio_chunk on a block of the next k samples
SessionProcess(k) ==
  /\ rs.phase = "ready"
  /\ rs.posA + k <= MaxInput
  /\ LET input == Samples(rs.posA, k)
         p == ProcessAudioSamples(input, rs.a, rs.stereo)
     IN rs' = [rs EXCEPT !.a = p.r,
                         !.posA = @ + k,
                         !.lastIn = input,
                         !.resampled = p.resampled,
                         !.published = p.published,
                         !.outA = @ \o p.resampled]
  /\ UNCHANGED programVars

\* Resampler::process of the bare Resampler on the next k samples
BareProcess(k) ==
  /\ rs.phase = "ready"
  /\ rs.posB + k <= MaxInput
  /\ LET input == Samples(rs.posB, k)
         p == Process(rs.b, input)
     IN rs' = [rs EXCEPT !.b = p.r,
                         !.posB = @ + k,
                         !.lastInB = input,
                         !.lastOutB = p.output,
                         !.outB = @ \o p.output]
  /\ UNCHANGED programVars

\* Resampler::process of the bare Resampler on the next k samples returns an
\* error: the transform failed on the first chunk of the call. No caller uses
\* a Resampler again after an error
BareProcessFails(k) ==
  /\ rs.phase = "ready"
  /\ rs.posB + k <= MaxInput
  /\ Len(rs.b.accumulator) + k >= rs.b.chunk_size
  /\ rs' = [rs EXCEPT !.phase = "failed",
                      !.b = ProcessFails(rs.b, Samples(rs.posB, k)),
                      !.posB = @ + k,
                      !.lastInB = Samples(rs.posB, k),
                      !.lastOutB = <<>>]
  /\ UNCHANGED programVars

\* the resampling step on its own: the same samples 1, 2, 3, ... are fed to
\* the pipeline's step and to a bare Resampler, each in blocks of any sizes
NextResampler ==
  \/ \E from_rate \in UnitRates, to_rate \in UnitRates, st \in BOOLEAN :
       ResamplerSetup(from_rate, to_rate, st)
  \/ \E p \in OddRatePairs, st \in BOOLEAN : ResamplerSetup(p[1], p[2], st)
  \/ \E k \in 1..MaxInput : SessionProcess(k)
  \/ \E k \in 1..MaxInput : BareProcess(k)
  \/ \E k \in 1..MaxInput : BareProcessFails(k)

SpecResampler == Init /\ [][NextResampler]_vars

\* a bare Resampler whose process is followed iteration by iteration
LoopSetup(from_rate, to_rate) ==
  /\ rs.phase = "none"
  /\ rs' = [NoResampling EXCEPT !.phase = "loop",
                                !.from = from_rate,
                                !.to = to_rate,
                                !.loop.r = ResamplerNew(from_rate, to_rate)]
  /\ UNCHANGED programVars

\* Resampler::process is called with the next k samples: the accumulator is
\* extended, the output starts empty
LoopCall(k) ==
  /\ rs.phase = "loop"
  /\ rs.loop.pc = "idle"
  /\ rs.loop.pos + k <= MaxInput
  /\ rs' = [rs EXCEPT !.loop.pc = "test",
                      !.loop.ret = "none",
                      !.loop.r.accumulator = @ \o Samples(rs.loop.pos, k),
                      !.loop.pos = @ + k,
                      !.loop.count = 0,
                      !.loop.total = Len(rs.loop.r.accumulator) + k]
  /\ UNCHANGED programVars

\* the while condition: with a chunk or more accumulated, chunk_size samples
\* are drained into the input buffer; with less, process returns the output
LoopTest ==
  /\ rs.loop.pc = "test"
  /\ LET r == rs.loop.r
     IN IF Len(r.accumulator) >= r.chunk_size
        THEN rs' = [rs EXCEPT
                      !.loop.pc = "transform",
                      !.loop.chunk = SubSeq(r.accumulator, 1, r.chunk_size),
                      !.loop.r.accumulator =
                         SubSeq(@, r.chunk_size + 1, Len(@))]
        ELSE rs' = [rs EXCEPT !.loop.pc = "idle", !.loop.ret = "Ok"]
  /\ UNCHANGED programVars

\* process_into_buffer on the drained chunk: its output extends the output of
\* the call and the loop goes on, or its error is returned at once
LoopTransform(ok) ==
  /\ rs.loop.pc = "transform"
  /\ IF ok
     THEN rs' = [rs EXCEPT
                   !.loop.pc = "test",
                   !.loop.chunk = <<>>,
                   !.loop.r.fed = IF Len(@) < MaxTransforms
                                  THEN Append(@, rs.loop.chunk) ELSE @,
                   !.loop.count = IF @ < MaxTransforms THEN @ + 1 ELSE @]
     ELSE rs' = [rs EXCEPT !.phase = "failed",
                           !.loop.pc = "idle",
                           !.loop.ret = "Err",
                           !.loop.chunk = <<>>]
  /\ UNCHANGED programVars

NextProcessLoop ==
  \/ \E from_rate \in UnitRates \cup LowRates, to_rate \in UnitRates :
       from_rate # to_rate /\ LoopSetup(from_rate, to_rate)
  \/ \E k \in 1..MaxRequestLen : LoopCall(k)
  \/ LoopTest
  \/ \E ok \in BOOLEAN : LoopTransform(ok)

\* the thread that called process keeps running: it evaluates the loop
\* condition, and a transform that can succeed does
SpecProcessLoop ==
  /\ Init
  /\ [][NextProcessLoop]_vars
  /\ WF_vars(LoopTest)
  /\ WF_vars(LoopTransform(TRUE))

\* what the normalizer leaves alone
normRest ==
  <<os, facade, startResult, cfg, nativeRate, bufLen, sampleRate, ingress,
    outbound, accepted, published, captureVars, pipeVars, playVars, recvVars,
    rs, pb, worker, callers, ffi, meta>>

\* channel counts of the capture format
NativeChannels == {1, 2}

\* capture_format: get_bitspersample, get_subformat, get_nchannels
NormFormat(bits, is_float, channels) ==
  /\ os = "windows"
  /\ norm.phase = "none"
  /\ norm' = [NoBlockData EXCEPT !.phase = "filling",
                                 !.bits = bits,
                                 !.is_float = is_float,
                                 !.channels = channels]
  /\ UNCHANGED normRest

\* block_align of the format: bytes of one frame
BlockAlign == norm.channels * (norm.bits \div 8)

\* read_from_device fills the buffer: the next byte of the block
NormByte(b) ==
  /\ norm.phase = "filling"
  /\ Len(norm.data) < MaxBytes
  /\ b \in (IF Recognized(norm.bits, norm.is_float)
               /\ (Len(norm.data) + 1) % (norm.bits \div 8) = 0
            THEN TopBytes ELSE LowBytes)
  /\ norm' = [norm EXCEPT !.data = Append(@, b)]
  /\ UNCHANGED normRest

\* capture_loop on a block of whole frames: convert_to_f32
Normalize ==
  /\ norm.phase = "filling"
  /\ norm.data # <<>>
  /\ Len(norm.data) % BlockAlign = 0
  /\ norm' = [norm EXCEPT !.phase = "done",
                          !.out = ConvertToF32(norm.data, norm.bits,
                                               norm.is_float, norm.channels)]
  /\ UNCHANGED normRest

NextNormalizer ==
  \/ \E f \in Formats, channels \in NativeChannels :
       NormFormat(f[1], f[2], channels)
  \/ \E b \in TopBytes : NormByte(b)
  \/ Normalize

SpecNormalizer == Init /\ [][NextNormalizer]_vars

\* a capture loop that publishes every block, empty or not
SendsEmpty(samples) == FALSE

\* capture_loop: samples.is_empty(), on which the loop continues
SkipsEmpty(samples) == samples = <<>>

\* Windows capture loop: read_from_device has returned the whole frames in
\* the buffer; they are converted, and the loop goes on to publish the
\* samples, or back to wait_for_event when there is none
CaptureConvert(max) ==
  /\ os = "windows"
  /\ capPc = "poll"
  /\ unit = "running"
  /\ produced < max
  /\ norm.phase = "filling"
  /\ norm.data # <<>>
  /\ Len(norm.data) % BlockAlign = 0
  /\ LET samples == ConvertToF32(norm.data, norm.bits, norm.is_float,
                                 norm.channels)
     IN /\ norm' = [norm EXCEPT !.data = <<>>, !.out = samples]
        /\ produced' = produced + 1
        /\ IF SkipsEmpty(samples)
           THEN capPc' = "wait" /\ UNCHANGED capHeld
           ELSE /\ capPc' = "send"
                /\ capHeld' = [id |-> produced + 1, len |-> Len(samples)]
  /\ UNCHANGED <<os, facade, startResult, cfg, nativeRate, bufLen, sampleRate,
                 rs, pb, worker, callers, ffi, meta, pipeVars, playVars, recvVars,
                 unit, callbackQ, dropped, sawDisconnect, ingress, outbound,
                 accepted, published>>

\* the Windows capture loop fed with blocks of one frame of zero bytes in
\* the format of the session, the pipeline and a receiving application
NextFormats ==
  \/ /\ os = "windows"
     /\ Start([sample_rate |-> SAMPLE_RATE, channels |-> "Mono"], SAMPLE_RATE,
              BUFFER_FRAMES, TRUE, "none")
  \/ \E f \in Formats, channels \in NativeChannels :
       facade = "alive" /\ NormFormat(f[1], f[2], channels)
  \/ capPc = "wait" /\ Len(norm.data) < BlockAlign /\ NormByte(0)
  \/ CapturePoll
  \/ CaptureNoData
  \/ CaptureConvert(CaptureBlocks)
  \/ CaptureSend
  \/ PipelineRecv(FALSE)
  \/ PipelineSend
  \/ Recv

SpecFormats == Init /\ [][NextFormats]_vars

\* lengths of the buffer the caller of a binding hands in
BufferLens == {0, 512, 2048}

\* outcomes of the JNI calls of nativeRecv: both succeed, get_array_length
\* fails, set_float_array_region fails
JniOutcomes == {"ok", "len", "set"}

\* a copy of the whole block, whatever the buffer holds
CopyAll(len, buffer_len) == len

\* copy_len = samples.len().min(buffer_len)
CopyLen(len, buffer_len) == IF len < buffer_len THEN len ELSE buffer_len

\* what nativeRecv / capture_recv return and copy for the message m that
\* try_recv gave them; the copy is the first `copied` samples of the block
BindingResult(m, buffer_len, jni) ==
  LET call == [kind |-> "msg", src |-> m.src, len |-> m.len,
               buffer_len |-> buffer_len, jni |-> jni, ret |-> 0,
               copied |-> 0]
  IN IF ~m.ok THEN [call EXCEPT !.kind = "err", !.ret = -2]
     ELSE IF jni = "len" THEN [call EXCEPT !.ret = -3]
     ELSE IF jni = "set" THEN [call EXCEPT !.ret = -4]
     ELSE [call EXCEPT !.ret = CopyLen(m.len, buffer_len),
                       !.copied = CopyLen(m.len, buffer_len)]

\* Android nativeRecv, C-ABI capture_recv: one try_recv on the facade, then
\* the copy into the caller's buffer
BindingRecv(buffer_len, jni) ==
  /\ os \in BindingBackends
  /\ facade = "alive"
  /\ os = "ios" => jni = "ok"
  /\ Len(ffi) < MaxBindingCalls
  /\ IF outbound # <<>>
     THEN /\ received' = Append(received, Head(outbound))
          /\ outbound' = Tail(outbound)
          /\ ffi' = Append(ffi, BindingResult(Head(outbound), buffer_len, jni))
          /\ UNCHANGED noneCauses
     ELSE /\ noneCauses' = noneCauses \cup {ChanRecv(outbound, OutboundTxAlive)}
          /\ ffi' = Append(ffi, [kind |-> "none", src |-> 0, len |-> 0,
                                 buffer_len |-> buffer_len, jni |-> jni,
                                 ret |-> 0, copied |-> 0])
          /\ UNCHANGED <<received, outbound>>
  /\ UNCHANGED <<os, facade, startResult, cfg, nativeRate, bufLen, sampleRate,
                 rs, pb, worker, callers, norm, meta, captureVars, pipeVars,
                 playVars, eosSeen, ingress, accepted, published>>

\* a session of a binding: started with the rate of the device, polled with
\* buffers shorter and longer than the blocks
NextBinding ==
  \/ \E len \in BlockLensOf(os) :
       /\ os \in BindingBackends
       /\ Start([sample_rate |-> SAMPLE_RATE, channels |-> "Mono"],
                SAMPLE_RATE, len, TRUE, "none")
  \/ Callback(CaptureBlocks)
  \/ Forward
  \/ CaptureSend
  \/ PipelineRecv(FALSE)
  \/ PipelineSend
  \/ \E buffer_len \in BufferLens, jni \in JniOutcomes :
       BindingRecv(buffer_len, jni)

SpecBinding == Init /\ [][NextBinding]_vars

(* ------------------- the metadata channel of start ------------------- *)

\* the backends whose create_backend waits for the capture thread's
\* metadata
MetaBackends == {"windows", "android"}

\* flume::bounded::<Result<(u32, usize), AecError>>(1)
MetaCap == 1

\* get_blockalign() of the capture format; 0 is the value capture_loop
\* tests for
BlockAligns == {0, 4}

handshakeRest ==
  <<os, facade, startResult, cfg, nativeRate, bufLen, sampleRate, rs, pb,
    worker, callers, norm, ffi, captureVars, pipeVars, playVars, recvVars,
    ingress, outbound, accepted, published>>

\* Ok((native_sample_rate, device_buffer_frames)) and Err(e)
MetaOk(rate, frames) == [ok |-> TRUE, rate |-> rate, frames |-> frames]
MetaErr(e) == [ok |-> FALSE, rate |-> 0, frames |-> 0, err |-> e]

\* a sender that nothing ever drops
MetaTxLeaked == meta.thread # "none"

\* meta_tx and its clone live in the closure of the capture thread: they are
\* dropped when the closure returns or unwinds
MetaTxAlive == meta.thread \in {"init", "loop", "fail"}

\* meta_tx.send(m) can complete: the receiver is gone (Err, ignored by
\* `let _ =`) or the queue has room
MetaCanSend == ~meta.rx \/ Len(meta.q) < MetaCap

\* the channel after a completed meta_tx.send(m)
MetaSend(m) ==
  IF meta.rx
  THEN [meta EXCEPT !.q = Append(@, m), !.sent = Append(@, m)]
  ELSE meta

\* create_backend up to the wait: the checks and spawns that return early
\* with `?`, or the spawn of the capture thread
MetaStart(spawned) ==
  /\ os \in MetaBackends
  /\ meta.start = "idle"
  /\ meta' = IF spawned
             THEN [meta EXCEPT !.start = "recv", !.thread = "init",
                               !.rx = TRUE]
             ELSE [meta EXCEPT !.start = "returned",
                     !.returns = Append(@, MetaErr(
                        IF os = "windows" THEN "DeviceUnavailable"
                        ELSE "BackendError"))]
  /\ UNCHANGED handshakeRest

\* the capture thread up to its first send: the metadata, the error of a
\* failed set-up step, or a panic that sends nothing
ThreadInit(outcome, rate, frames, align) ==
  /\ meta.thread = "init"
  /\ MetaCanSend
  /\ os = "android" => align = 4
  /\ meta' =
       IF outcome = "meta"
       THEN [MetaSend(MetaOk(rate, frames)) EXCEPT !.thread = "loop",
                                                    !.align = align]
       ELSE IF outcome = "error"
       THEN [MetaSend(MetaErr("BackendError")) EXCEPT !.thread = "done"]
       ELSE [meta EXCEPT !.thread = "dead"]
  /\ UNCHANGED handshakeRest

\* the capture thread leaves its loop after the metadata was sent.
\* Windows: `misaligned` returns Err when block_align == 0; a failed send to
\* the ingress queue breaks, and stop_stream then returns Ok or Err.
\* Android: a failed send breaks and the thread returns.  The ingress
\* receiver is held by CaptureHandle::new until create_backend has returned.
ThreadLoop(outcome) ==
  /\ meta.thread = "loop"
  /\ \/ /\ outcome = "misaligned"
        /\ os = "windows" /\ meta.align = 0
        /\ meta' = [meta EXCEPT !.thread = "fail"]
     \/ /\ outcome = "stop_failed"
        /\ os = "windows" /\ meta.start = "returned"
        /\ meta' = [meta EXCEPT !.thread = "fail"]
     \/ /\ outcome = "stopped"
        /\ meta.start = "returned"
        /\ meta' = [meta EXCEPT !.thread = "done"]
     \/ /\ outcome = "panic"
        /\ meta' = [meta EXCEPT !.thread = "dead"]
  /\ UNCHANGED handshakeRest

\* Windows: `let _ = meta_tx.send(Err(e))` after capture_loop returned Err
ThreadSendErr ==
  /\ meta.thread = "fail"
  /\ MetaCanSend
  /\ meta' = [MetaSend(MetaErr("BackendError")) EXCEPT !.thread = "done"]
  /\ UNCHANGED handshakeRest

\* meta_rx.recv(): the head of the queue, or the error of a channel whose
\* senders are all gone
StartRecv ==
  /\ meta.start = "recv"
  /\ IF meta.q # <<>>
     THEN meta' = [meta EXCEPT !.start = "got", !.held = <<Head(meta.q)>>,
                               !.q = Tail(@)]
     ELSE /\ ~MetaTxAlive
          /\ meta' = [meta EXCEPT !.start = "got",
                                  !.held = <<MetaErr("died")>>]
  /\ UNCHANGED handshakeRest

\* create_backend returns what recv gave it; meta_rx is dropped
StartReturn ==
  /\ meta.start = "got"
  /\ meta' = [meta EXCEPT !.start = "returned", !.rx = FALSE,
                          !.returns = Append(@, meta.held[1])]
  /\ UNCHANGED handshakeRest

ThreadSetup ==
  \E outcome \in {"meta", "error", "panic"}, rate \in NativeRatesOf(os),
     frames \in BlockLensOf(os), align \in BlockAligns :
    ThreadInit(outcome, rate, frames, align)

NextHandshake ==
  \/ \E spawned \in BOOLEAN : MetaStart(spawned)
  \/ ThreadSetup
  \/ \E outcome \in {"misaligned", "stop_failed", "stopped", "panic"} :
       ThreadLoop(outcome)
  \/ ThreadSendErr
  \/ StartRecv
  \/ StartReturn

\* start and the capture thread are running threads: each takes its next
\* step when it can.  How long the thread stays in its loop is left open.
SpecHandshake ==
  /\ Init
  /\ [][NextHandshake]_vars
  /\ WF_vars(ThreadSetup)
  /\ WF_vars(ThreadSendErr)
  /\ WF_vars(StartRecv)
  /\ WF_vars(StartReturn)

(* ------------------------------ properties ---------------------------- *)

\* C1: the messages the receive operations return are, in order, the messages
\* the pipeline task published; the i-th published message was made from the
\* i-th block accepted into the ingress queue, and blocks are accepted in
\* capture order: nothing is reordered or duplicated on the way.
C1_FifoOrder ==
  /\ Len(received) <= Len(published)
  /\ \A i \in 1..Len(received) : received[i] = published[i]
  /\ facade = "alive" => received \o outbound = published
  /\ Len(published) <= Len(accepted)
  /\ \A i \in 1..Len(published) : published[i].src = accepted[i]
  /\ \A i, j \in 1..Len(accepted) : i < j => accepted[i] < accepted[j]

\* every block of the run went through both queues to the application
C1_Witness ==
  /\ Len(received) = CaptureBlocks
  /\ \A i \in 1..CaptureBlocks : received[i].ok

C3_ZeroRateRejected ==
  (startResult # "none" /\ cfg.sample_rate = 0) =>
    /\ startResult = "InvalidConfig"
    /\ facade = "failed"
    /\ unit = "none" /\ capPc = "none" /\ pipePc = "none" /\ playPc = "none"
    /\ nativeRate = 0
    /\ ingress = <<>> /\ outbound = <<>> /\ playbackQ = <<>> /\ callbackQ = <<>>

\* a start with sample_rate = 0 has returned
C3_Witness ==
  startResult = "InvalidConfig" /\ cfg.sample_rate = 0 /\ facade = "failed"

\* C4: a start with sample_rate > 0 ends with a facade or with one of the
\* five error kinds, in every calling context.
C4_NoUnhandledFault ==
  (startResult # "none" /\ cfg.sample_rate > 0) =>
    startResult \in {"Ok"} \cup ErrorKinds

\* C5: once the facade is released and the capture side has met the ingress
\* queue's disconnect, the native capture stream is stopped.
C5_ReleaseStopsCapture ==
  (facade = "released" /\ sawDisconnect) => unit = "stopped"

\* C6: when the playback consumer has ended after a release, every request
\* that was queued at the release has been consumed.
C6_QueuedRequestsConsumed ==
  (facade = "released" /\ playPc = "done") =>
    \A i \in 1..Len(relQ) : \E j \in 1..Len(played) : played[j] = relQ[i]

\* C7: recv / recv_blocking have returned end-of-stream only if the pipeline
\* task has exited and every message it published has been returned; while
\* the task is alive and the outbound queue is empty they cannot return.
C7_EndOfStream ==
  /\ eosSeen =>
       /\ pipePc = "done"
       /\ outbound = <<>>
       /\ received = published
  /\ (facade = "alive" /\ outbound = <<>> /\ pipePc # "done") =>
       (~ENABLED Recv /\ ~ENABLED RecvBlocking)

\* end-of-stream was returned after at least one message
C7_Witness ==
  eosSeen /\ Len(received) >= 1 /\ facade = "alive"

C9_OverflowNotStored ==
  Len(ingress) = IngressCap => (callbackQ = <<>> /\ capHeld = NoBlock)

\* C9 amended: with the consumer stopped, the ingress queue holds at most 32
\* blocks, the outbound queue at most 32 messages, the playback queue at most
\* 16 requests; beyond the ingress capacity the macOS / Android callback
\* queue stores up to 32 more blocks, the thread that publishes into the
\* ingress queue holds one block and the pipeline task one message; every
\* produced block is in one of these places or was dropped, and the Linux and
\* Windows capture threads drop nothing.
C9_BoundedBuffering ==
  /\ Len(ingress) <= IngressCap
  /\ Len(outbound) <= OutboundCap
  /\ Len(playbackQ) <= PlaybackCap
  /\ Len(callbackQ) <= CallbackCap
  /\ produced = Len(callbackQ) + (IF capHeld = NoBlock THEN 0 ELSE 1)
                + Len(ingress) + (IF pipePc = "send" THEN 1 ELSE 0)
                + Len(outbound) + Cardinality(dropped)
  /\ \A i \in 1..Len(callbackQ) : callbackQ[i].id \notin dropped
  /\ \A i \in 1..Len(ingress) : ingress[i].id \notin dropped
  /\ os \in ReaderBackends => dropped = {}

\* a queue is full and a block produced after that was dropped
C9_Witness ==
  /\ dropped # {}
  /\ Len(ingress) = IngressCap \/ Len(callbackQ) = CallbackCap

\* C10: on Linux and Windows the thread that reads the hardware buffers can
\* always complete its publish into the ingress queue at once.
C10_PublishNeverWaits ==
  (os \in ReaderBackends /\ capPc = "send") => ENABLED CaptureSend

\* C11: a resampling error is published as one error message, which is the
\* last message of the session: once it is published the pipeline task has
\* ended for good, nothing follows it in the outbound queue, the consumer gets
\* the earlier messages, then the error, then end-of-stream.
C11_ErrorIsTerminal ==
  /\ \A i \in 1..Len(published) : ~published[i].ok => i = Len(published)
  /\ (published # <<>> /\ ~published[Len(published)].ok) => pipePc = "done"
  /\ pipePc = "sendErr" => (~pipeHeld.ok /\ \A i \in 1..Len(published) : published[i].ok)
  /\ \A i \in 1..Len(received) : ~received[i].ok =>
       /\ i = Len(received)
       /\ outbound = <<>>
       /\ facade = "alive" => ChanRecv(outbound, OutboundTxAlive) = "Disconnected"

\* the consumer got a message, then the error, then end-of-stream, while a
\* later block was still waiting in the ingress queue
C11_Witness ==
  /\ Len(received) >= 2
  /\ ~received[Len(received)].ok
  /\ eosSeen
  /\ Len(accepted) > Len(published)

\* C12: a play_audio call made after the playback consumer has ended returns
\* BackendError and enqueues nothing.
C12_GoneConsumerRejects ==
  [][(playCalls' = playCalls + 1 /\ playPc = "done") =>
       (lastPlay' = "BackendError" /\ playbackQ' = playbackQ)]_vars

\* C13: when start has returned an error, nothing that the attempt acquired
\* is left: no native unit exists or runs, no capture or playback thread of
\* the attempt is alive.
C13_ErrorLeavesNothing ==
  startResult \in ErrorKinds =>
    /\ unit \in {"none", "stopped"}
    /\ capPc \in {"none", "done"}
    /\ playPc \in {"none", "done"}


\* C14: with Stereo requested every block of k samples that leaves the
\* resampling step is published as 2k samples, each sample immediately
\* followed by its copy, in the original order; with Mono the block is
\* published as it left the resampling step.
C14_StereoDuplicates ==
  rs.phase = "ready" =>
    IF rs.stereo
    THEN /\ Len(rs.published) = 2 * Len(rs.resampled)
         /\ \A i \in 1..Len(rs.resampled) :
              /\ rs.published[2 * i - 1] = rs.resampled[i]
              /\ rs.published[2 * i] = rs.resampled[i]
    ELSE rs.published = rs.resampled

\* a stereo block of several distinct resampled samples was published
C14_Witness ==
  /\ rs.stereo
  /\ rs.from # rs.to
  /\ Len(rs.resampled) >= 3
  /\ rs.published[1] # rs.published[3]


\* C15: a Resampler whose rates differ returns no output until the input
\* accumulated over its calls reaches chunk_size; after pos samples in all it
\* has passed exactly pos div chunk_size chunks to the transform, the k-th
\* chunk being the k-th run of chunk_size consecutive input samples, it has
\* returned the transform's output for each of them in order, and it holds
\* back the remaining pos mod chunk_size samples.
C15_ChunkedTransform ==
  (rs.phase = "ready" /\ rs.from # rs.to) =>
    LET chunk == ChunkSize(rs.from)
        n == rs.posB \div chunk
        frames == OutFrames(rs.from, rs.to)
    IN /\ rs.b.chunk_size = chunk
       /\ rs.posB < chunk => rs.outB = <<>>
       /\ Len(rs.b.fed) = n
       /\ \A k \in 1..n : rs.b.fed[k] = Samples((k - 1) * chunk, chunk)
       /\ rs.b.accumulator = Samples(n * chunk, rs.posB % chunk)
       /\ Len(rs.outB) = n * frames
       /\ \A k \in 1..n : \A j \in 1..frames :
            rs.outB[(k - 1) * frames + j] =
              [fed |-> SubSeq(rs.b.fed, 1, k), j |-> j]

\* two chunks were transformed, the second one completed by a call that
\* brought less than a chunk, after a call that returned nothing
C15_Witness ==
  /\ rs.from # rs.to
  /\ rs.posB = 2 * ChunkSize(rs.from)
  /\ Len(rs.b.fed) = 2
  /\ Len(rs.lastInB) < ChunkSize(rs.from)
  /\ rs.lastOutB # <<>>


\* C16: two fresh Resamplers with the same differing rates that have been
\* given the same input samples, split across their process calls in any two
\* ways, have passed the same sequence of chunks to the transform, have
\* returned the same concatenated output and hold back the same samples.
C16_BoundaryInsensitive ==
  (rs.phase = "ready" /\ rs.from # rs.to /\ rs.posA = rs.posB) =>
    /\ rs.a.fed = rs.b.fed
    /\ rs.outA = rs.outB
    /\ rs.a.accumulator = rs.b.accumulator

\* one Resampler took several chunks in a single call, the other took the
\* same samples one at a time
C16_Witness ==
  /\ rs.from # rs.to
  /\ rs.posA = rs.posB
  /\ rs.posA >= 2 * ChunkSize(rs.from)
  /\ Len(rs.lastIn) = rs.posA
  /\ Len(rs.b.fed) = 2
  /\ Len(rs.lastInB) = 1
  /\ Len(rs.lastOutB) < Len(rs.outB)


C19_StopIsNoOp ==
  [][(facade \in {"none", "failed", "stopped"} /\ Stop) => UNCHANGED vars]_vars


\* C20: at the publish point the pipeline task holds the processed message;
\* while the outbound queue is full and the facade's receiver exists the
\* publish cannot take place, and it can as soon as the consumer has freed
\* capacity or has disconnected. The task drops and overwrites nothing: while
\* the consumer is connected, every block taken from the ingress queue has
\* its message published, in order, or is the one held at the publish point
\* (the blocks taken are all those accepted but the ones still queued, as
\* long as the task runs), and every published message is still queued or
\* was received.
C20_PublishSuspends ==
  LET atPublish == pipePc \in {"send", "sendErr"}
      held == IF atPublish THEN 1 ELSE 0
  IN /\ atPublish => pipeHeld # NoMsg
     /\ Len(outbound) <= OutboundCap
     /\ (atPublish /\ facade = "alive" /\ Len(outbound) = OutboundCap) =>
          ~ENABLED PipelineSend
     /\ (atPublish /\ (facade # "alive" \/ Len(outbound) < OutboundCap)) =>
          ENABLED PipelineSend
     /\ facade = "alive" =>
          /\ received \o outbound = published
          /\ pipePc # "done" =>
               Len(accepted) - Len(ingress) = Len(published) + held
          /\ \A i \in 1..Len(published) : published[i].src = accepted[i]
          /\ atPublish => pipeHeld.src = accepted[Len(published) + 1]

\* the pipeline task is suspended at the publish point on a full outbound
\* queue that the consumer had made room in before
C20_Witness ==
  /\ pipePc = "send"
  /\ facade = "alive"
  /\ Len(outbound) = OutboundCap
  /\ Len(received) >= 1

\* C21: when the backend's capture loop has ended on a native failure after
\* the start returned (the Linux device read failed), the consumer that is
\* told the stream has ended has received a BackendError message before.
C21_BackendFailureReported ==
  (os = "linux" /\ capPc = "done" /\ ~sawDisconnect /\ eosSeen) =>
    \E i \in 1..Len(received) : ~received[i].ok

\* C22: a render callback that is entered while the playback consumer holds
\* the staging lock does not wait: it returns in the same step with a whole
\* cycle of silence and leaves the staging buffer as it was.
C22_RenderNeverWaits ==
  [][(pb.lock = "submit" /\ pb'.renders = pb.renders + 1) =>
       /\ pb'.renderPc = "idle"
       /\ pb'.out = Silence(RenderFrames)
       /\ pb'.buf = pb.buf]_vars

\* C23: with a request rate that differs from the native rate, the samples of
\* the requests go through one Resampler: after requests of sent samples in
\* all, sent div chunk_size chunks have been transformed for the native
\* output path, however the samples were split over the requests.
C23_PlaybackResamplerPersists ==
  (pb.phase = "ready" /\ os \in ResamplerPlayback /\ pb.rate # pb.native) =>
    pb.fed = pb.sent \div ChunkSize(pb.rate)

C25_ChunkIsRounded ==
  rs.phase \in {"ready", "failed"} =>
    rs.b.chunk_size = (rs.from + 50) \div 100

\* C25: the chunk size of a Resampler is from_rate / 100 rounded down, which
\* is 10 ms of samples exactly when from_rate is a multiple of 100, and no
\* process call changes it.
C25_ChunkIsTruncated ==
  rs.phase \in {"ready", "failed"} =>
    /\ rs.b.chunk_size = rs.from \div 100
    /\ rs.a # NoResampler => rs.a.chunk_size = rs.from \div 100
    /\ rs.from % 100 = 0 => rs.b.chunk_size * 100 = rs.from

\* a Resampler whose from_rate is not a multiple of 100 has transformed
\* chunks in several process calls
C25_Witness ==
  /\ rs.phase = "ready"
  /\ rs.from % 100 # 0
  /\ Len(rs.b.fed) >= 2
  /\ Len(rs.lastInB) < rs.posB

\* C26: once the facade is released, the Windows capture loop ends, also when
\* the device delivers no further frames.
C26_PollingLoopEnds ==
  (os = "windows" /\ facade = "released") ~> (capPc = "done")

\* C27: a real-time input callback whose try_send finds its queue full
\* (the callback queue on macOS and Android, the ingress queue on iOS) loses
\* exactly its new block: the queue keeps its blocks in their order, the
\* native engine keeps running, and a callback that finds room again has its
\* block appended.
C27_FullQueueDropsNewest ==
  [][(os \in CallbackBackends /\ produced' = produced + 1) =>
       LET fwd == os \in ForwardBackends
           q == IF fwd THEN callbackQ ELSE ingress
           qAfter == IF fwd THEN callbackQ' ELSE ingress'
           cap == IF fwd THEN CallbackCap ELSE IngressCap
           new == [id |-> produced + 1, len |-> bufLen]
       IN /\ unit' = "running"
          /\ IF Len(q) >= cap
             THEN /\ qAfter = q
                  /\ dropped' = dropped \cup {new.id}
             ELSE (fwd \/ IngressRxAlive) =>
                    /\ qAfter = Append(q, new)
                    /\ dropped' = dropped]_vars

\* a block was discarded on a full queue and a later block is queued
C27_Witness ==
  /\ os \in CallbackBackends
  /\ LET q == IF os \in ForwardBackends THEN callbackQ ELSE ingress
     IN \E d \in dropped : \E i \in 1..Len(q) :
          /\ q[i].id > d
          /\ \A j \in 1..(i - 1) : q[j].id < d

\* C28: while the pipeline task runs, the blocks it has consumed from the
\* ingress queue are the blocks accepted but those still queued; it has
\* published one message for each of them, in their order, but for the one it
\* holds at its publish point, and a message of no sample (the resampler has
\* not accumulated a chunk yet) is published like any other. The published
\* messages never outnumber the consumed blocks.
C28_OneMessagePerBlock ==
  LET consumed == Len(accepted) - Len(ingress)
      held == IF pipePc \in {"send", "sendErr"} THEN 1 ELSE 0
  IN /\ Len(published) <= Len(accepted)
     /\ \A i \in 1..Len(published) : published[i].src = accepted[i]
     /\ pipePc \in {"recv", "send", "sendErr"} =>
          /\ consumed = Len(published) + held
          /\ held = 1 => pipeHeld.src = accepted[consumed]
     /\ (pipePc = "send" /\ pipeHeld.len = 0 /\ facade = "alive"
         /\ Len(outbound) < OutboundCap) => ENABLED PipelineSend

\* a message of no sample was published for a block and the next block's
\* message, with samples, was published after it
C28_Witness ==
  /\ Len(published) >= 2
  /\ published[1].ok /\ published[1].len = 0
  /\ published[2].ok /\ published[2].len > 0
  /\ pipePc = "recv"

C30_DeliveredExactlyOnce ==
  /\ facade = "alive" => received \o outbound = published
  /\ \A i \in 1..Len(received) :
       Cardinality({<<t, j>> \in Threads \X (1..Len(received)) :
                      /\ j <= Len(callers[t].got)
                      /\ callers[t].got[j].src = received[i].src}) = 1
  /\ \A t \in Threads : \A j \in 1..Len(callers[t].got) :
       \E i \in 1..Len(received) : received[i] = callers[t].got[j]
  /\ \A i, j \in 1..Len(received) : i # j => received[i].src # received[j].src

\* every thread has been returned a message, and all of them are inside a
\* receive call again at the same time
C30_Witness ==
  /\ \A t \in Threads : callers[t].got # <<>>
  /\ \A t \in Threads : callers[t].pc = "waiting"
  /\ Len(received) >= Cardinality(Threads)

\* C31: on the backends whose playback consumer resamples with a Resampler,
\* when the consumer fails on a request, that request had been accepted with
\* Ok, the consumer is ended for good, every play_audio call made from then
\* on returns BackendError and enqueues nothing, and capture goes on: the
\* failing step touches nothing of the capture side, the unit keeps running
\* and the capture thread and the pipeline task stay alive.
C31_FailedRequestEndsPlayback ==
  /\ [][(os \in ResamplerPlayback /\ playPc = "run" /\ playExit' = "error") =>
          /\ \E i \in 1..Len(submitted) : submitted[i] = Head(playbackQ).id
          /\ playPc' = "done"
          /\ UNCHANGED <<captureVars, pipeVars, recvVars, ingress, outbound>>]_vars
  /\ [][(os \in ResamplerPlayback /\ playExit = "error") =>
          (playPc' = "done" /\ playExit' = "error")]_vars
  /\ [][(os \in ResamplerPlayback /\ playExit = "error"
           /\ playCalls' = playCalls + 1) =>
          /\ lastPlay' = "BackendError"
          /\ playbackQ' = playbackQ
          /\ submitted' = submitted]_vars
  /\ [](os \in ResamplerPlayback /\ playExit = "error" =>
          /\ unit = "running"
          /\ IngressTxAlive
          /\ pipePc \in {"recv", "send"})

\* the consumer failed on a request of rate 0, a later play_audio call was
\* refused, and every block of the device reached the application
C31_Witness ==
  /\ os \in ResamplerPlayback
  /\ playExit = "error"
  /\ played = <<>>
  /\ lastPlay = "BackendError"
  /\ playCalls = PlaybackCalls
  /\ Len(received) = MaxBlocks

\* C32: while the playback queue holds 16 requests and its consumer end
\* exists, a play_audio call cannot complete; it completes as soon as the
\* queue has room or the consumer end is gone. A call that completes with
\* BackendError found the consumer end gone, never a full queue, and a call
\* that completes with Ok has appended its request; while the consumer runs
\* every accepted request is either played or still queued, in order.
C32_FullQueueBlocksPlayAudio ==
  /\ [](facade = "alive" =>
          (ENABLED PlayAudio(SAMPLE_RATE, StalledCalls + 1)
             <=> (~PlaybackRxAlive \/ Len(playbackQ) < PlaybackCap)))
  /\ [][playCalls' = playCalls + 1 =>
          \/ /\ lastPlay' = "Ok"
             /\ Len(playbackQ) < PlaybackCap
             /\ playbackQ' = Append(playbackQ, [id |-> playCalls + 1,
                                                rate |-> SAMPLE_RATE])
          \/ /\ lastPlay' = "BackendError"
             /\ ~PlaybackRxAlive
             /\ playbackQ' = playbackQ]_vars
  /\ [](playExit = "none" =>
          submitted = played \o [i \in 1..Len(playbackQ) |-> playbackQ[i].id])

\* the queue was full with the consumer alive, the consumer took a request,
\* the next call got in and the queue is full again
C32_Witness ==
  /\ facade = "alive"
  /\ PlaybackRxAlive
  /\ Len(playbackQ) = PlaybackCap
  /\ played # <<>>
  /\ playCalls = StalledCalls
  /\ lastPlay = "Ok"

\* a frame of a render cycle that carries a staged sample, not padding, in
\* a session whose requests are staged as they are (samples 1, 2, 3, ...)
Staged(x) == x # 0

\* C33 as stated: each render callback emits the first min(n, available)
\* samples of the staging buffer, removes exactly those and pads with zeros
\* (seen on the sessions whose requests need no rate conversion).
C33_EveryRenderEmitsHead ==
  [][(/\ pb.rate = pb.native
      /\ pb'.renderPc = "idle"
      /\ pb'.renders = pb.renders + 1 \/ pb.renderPc = "blocked") =>
       LET a == IF Len(pb.buf) < RenderFrames THEN Len(pb.buf)
                ELSE RenderFrames
       IN /\ pb'.out = SubSeq(pb.buf, 1, a) \o Silence(RenderFrames - a)
          /\ pb'.buf = SubSeq(pb.buf, a + 1, Len(pb.buf))]_vars

\* C33: each render callback that gets the staging lock emits the first
\* min(n, available) samples of the staging buffer, removes exactly those and
\* pads with zeros; one that finds the lock taken (macOS, iOS) emits n zeros
\* and removes nothing. The samples are staged in submission order, and the
\* samples emitted so far, followed by those still staged, are the samples
\* staged so far: none is emitted twice, none is skipped (compared sample by
\* sample on the sessions whose requests need no rate conversion).
C33_RenderInOrder ==
  /\ [][(\/ pb'.renders = pb.renders + 1 /\ pb.lock = "free"
         \/ pb.renderPc = "blocked" /\ pb'.renderPc = "idle") =>
          LET a == IF Len(pb.buf) < RenderFrames THEN Len(pb.buf)
                   ELSE RenderFrames
          IN /\ pb'.out = SubSeq(pb.buf, 1, a) \o Silence(RenderFrames - a)
             /\ pb'.buf = SubSeq(pb.buf, a + 1, Len(pb.buf))
             /\ pb'.stream = pb.stream \o pb'.out]_vars
  /\ [][(pb'.renders = pb.renders + 1 /\ pb.lock # "free"
           /\ os \in TryLockBackends) =>
          /\ pb'.out = Silence(RenderFrames)
          /\ pb'.buf = pb.buf
          /\ pb'.stream = pb.stream \o pb'.out]_vars
  /\ [](pb.rate = pb.native =>
          SelectSeq(pb.stream, Staged) \o pb.buf = pb.staged)
  /\ [](Len(pb.stream) = RenderFrames * (pb.renders
                           - (IF pb.renderPc = "blocked" THEN 1 ELSE 0)))
  /\ []((os \in StagingBackends /\ pb.phase = "ready" /\ pb.rate = pb.native)
          => pb.staged \o pb.pending = Samples(0, pb.sent))

\* two render cycles have run: the first emitted two samples of a staged
\* request of three, the second the third sample and one frame of padding
C33_Witness ==
  /\ os \in StagingBackends
  /\ pb.rate = pb.native
  /\ pb.renders = 2
  /\ pb.stream = <<1, 2, 3, 0>>
  /\ pb.buf = <<>>

\* C34: every call of Resampler::process returns, also for an input rate
\* below 100 Hz, and a call that returns its output has invoked the transform
\* floor((carried-over samples + input length) / chunk_size) times.
C34_ProcessTerminates ==
  /\ (rs.loop.pc = "test") ~> (rs.loop.pc = "idle")
  /\ []((rs.loop.pc = "idle" /\ rs.loop.ret = "Ok") =>
          /\ rs.loop.count * rs.loop.r.chunk_size <= rs.loop.total
          /\ rs.loop.total < (rs.loop.count + 1) * rs.loop.r.chunk_size)

\* the k-th sample of the block, decoded from its own bytes
SampleAt(k) ==
  LET w == norm.bits \div 8
  IN DecodeSample(SubSeq(norm.data, (k - 1) * w + 1, k * w), norm.bits,
                  norm.is_float)

\* C35: for a recognized format, a block of F whole frames of C channels is
\* normalized to F samples; the i-th is the mean of the C decoded samples of
\* the i-th frame, and for C = 1 it is the i-th decoded sample itself.
C35_DownmixIsFrameMean ==
  (norm.phase = "done" /\ Recognized(norm.bits, norm.is_float)) =>
    LET F == Len(norm.data) \div BlockAlign
        C == norm.channels
    IN /\ Len(norm.out) = F
       /\ \A i \in 1..F :
            norm.out[i] =
              IF C = 1 THEN SampleAt(i)
              ELSE [sum |-> [c \in 1..C |-> SampleAt((i - 1) * C + c)],
                    div |-> C]

\* a 16-bit block of two frames of two channels was normalized, its frames
\* differing from each other and its channels within a frame
C35_Witness ==
  /\ norm.phase = "done"
  /\ norm.bits = 16
  /\ norm.channels = 2
  /\ Len(norm.out) = 2
  /\ norm.out[1] # norm.out[2]
  /\ norm.out[1].sum[1] # norm.out[1].sum[2]

\* C38: every 3-byte group (b0, b1, b2) of a 24-bit block decodes to the
\* 24-bit two's-complement number b0 + 256 b1 + 65536 b2, less 2^24 when bit
\* 7 of b2 is set: a number from -8388608 to 8388607, normalized by 8388608
\* to a sample from -1 (included) to 1 (excluded).
C38_SignExtended24 ==
  (norm.phase = "done" /\ norm.bits = 24) =>
    \A k \in 1..(Len(norm.data) \div 3) :
      LET b == SubSeq(norm.data, 3 * k - 2, 3 * k)
          u == b[1] + 256 * b[2] + 65536 * b[3]
          s == IF norm.channels = 1 THEN norm.out[k]
               ELSE norm.out[(k + 1) \div 2].sum[2 - (k % 2)]
      IN /\ s.num = IF b[3] >= 128 THEN u - 16777216 ELSE u
         /\ s.num >= -8388608
         /\ s.num <= 8388607
         /\ s.den = 8388608
         /\ -s.den <= s.num /\ s.num < s.den

\* a 24-bit mono block was normalized whose first sample is the least and
\* whose second sample is the greatest 24-bit number
C38_Witness ==
  /\ norm.phase = "done"
  /\ norm.bits = 24
  /\ norm.channels = 1
  /\ norm.data = <<0, 0, 128, 255, 255, 127>>
  /\ norm.out[1].num = -8388608
  /\ norm.out[2].num = 8388607

Took(call) == call.kind # "none"

\* C37: every call of the polling receive takes at most one message from the
\* facade, the calls that took one took the messages of the outbound queue
\* in order, each exactly once, and nothing taken is queued again; a call that
\* got a block and copied it has copied its first min(block length, buffer
\* length) samples and returned that count, so that the samples beyond the
\* buffer length are in no buffer: no later call returns samples of the same
\* block.
C37_PollingCopyTruncates ==
  /\ facade = "alive" => received \o outbound = published
  /\ Len(SelectSeq(ffi, Took)) = Len(received)
  /\ \A j \in 1..Len(received) :
       /\ SelectSeq(ffi, Took)[j].src = received[j].src
       /\ SelectSeq(ffi, Took)[j].len = received[j].len
  /\ \A k \in 1..Len(ffi) :
       /\ (ffi[k].kind = "msg" /\ ffi[k].jni = "ok") =>
            /\ ffi[k].copied <= ffi[k].len
            /\ ffi[k].copied <= ffi[k].buffer_len
            /\ ffi[k].copied = ffi[k].len \/ ffi[k].copied = ffi[k].buffer_len
            /\ ffi[k].ret = ffi[k].copied
       /\ \A j \in 1..Len(ffi) :
            (j # k /\ Took(ffi[j]) /\ Took(ffi[k])) => ffi[j].src # ffi[k].src

\* a call with a buffer of 512 samples got a block of 1024 and returned 512;
\* the next call, with room for 2048, got the next block whole
C37_Witness ==
  /\ Len(ffi) >= 2
  /\ ffi[1].kind = "msg" /\ ffi[1].len = BUFFER_SIZE
  /\ ffi[1].buffer_len = 512 /\ ffi[1].ret = 512
  /\ ffi[2].kind = "msg" /\ ffi[2].src # ffi[1].src
  /\ ffi[2].buffer_len = 2048 /\ ffi[2].ret = BUFFER_SIZE

\* start has returned at most once, and it has returned exactly when it has
\* left create_backend
StartReturnedOnce ==
  /\ Len(meta.returns) <= 1
  /\ meta.start = "returned" <=> Len(meta.returns) = 1

\* what start returned once the thread was spawned: the first message the
\* thread sent, or the error of a thread that died without sending
ReturnsFirstMessage ==
  (meta.start = "returned" /\ meta.thread # "none") =>
    IF meta.sent # <<>>
    THEN meta.returns[1] = meta.sent[1]
    ELSE meta.thread = "dead" /\ meta.returns[1] = MetaErr("died")

\* C39 as stated: start returns exactly once, after the thread has sent the
\* metadata, sent an error or died; start never waits forever on the
\* metadata channel; and whenever the thread, having failed after the
\* metadata was sent, is at its send of the error, the send can complete.
C39_FailureSendNeverWaits ==
  /\ [](StartReturnedOnce /\ ReturnsFirstMessage)
  /\ (meta.start = "recv") ~> (meta.start = "returned")
  /\ [](meta.thread = "fail" => ENABLED ThreadSendErr)

\* C39: start returns exactly once, after the thread has sent the metadata,
\* sent an error or died, and with the first of these; start never waits
\* forever on the metadata channel; the send of a failure after the metadata
\* never waits forever: it can wait only while the metadata is still queued
\* and start has not taken it yet, and start's receive ends the wait.
C39_HandshakeCompletes ==
  /\ [](StartReturnedOnce /\ ReturnsFirstMessage)
  /\ (meta.start = "recv") ~> (meta.start = "returned")
  /\ (meta.thread = "fail") ~> (meta.thread = "done")
  /\ []((meta.thread = "fail" /\ ~ENABLED ThreadSendErr) =>
          /\ meta.start = "recv"
          /\ meta.q = <<meta.sent[1]>>
          /\ meta.sent[1].ok)

\* on Windows the thread sent the metadata, start returned it, and the error
\* of a later failure went into the channel before start had dropped the
\* receiver
C39_Witness ==
  /\ os = "windows"
  /\ meta.start = "returned"
  /\ meta.thread = "done"
  /\ Len(meta.sent) = 2 /\ ~meta.sent[2].ok
  /\ meta.returns = <<meta.sent[1]>> /\ meta.returns[1].ok

====
